---------------------------- MODULE Spec2Model ----------------------------
(***************************************************************************)
(* Actuator supervisor of the pi-pool controller: the interlocked pump and *)
(* heater state machines (src/src/Pump.py, src/src/Heater.py), their       *)
(* timers, the relay board, the inlet thermometer, the automations, the    *)
(* watchdog and the supervisor loop with its shutdown handler              *)
(* (src/src/pipool.py), with the light and its color driver                *)
(* (src/src/Light.py, src/src/LightColorLogic.py) as far as the watchdog   *)
(* and the shutdown handler deal with them.                                *)
(*                                                                         *)
(* Every method of the source is an operator from a "world" record (the    *)
(* objects' fields) to the world after the call; the actions of the        *)
(* specifications apply these operators.  Spec interleaves whole handlers  *)
(* of the tick thread, the broker thread, the delayed-callback threads and *)
(* the signal handler.  ApiSpec is a client that calls the public methods  *)
(* of the two actuators in any order.  RaceSpec interleaves the statements *)
(* of Heater.on() with those of the Pump mutators under the two locks.     *)
(* WatchdogSpec runs Watchdog.check() under every answer of the pinger and *)
(* of the broker session, between commands to pump, heater and light, over *)
(* a clock long enough for an extended broker outage.                      *)
(***************************************************************************)
EXTENDS Integers, Sequences, FiniteSets, TLC

VARIABLES
    now,          \* the clock (time.time() / time.perf_counter()), in clock steps
    heater,       \* fields of the Heater object
    pump,         \* fields of the Pump object
    relay,        \* RelayBlock: for each device, whether its relay is active
    thermo,       \* Thermometer.currentTemp of the inlet sensor
    log,          \* events and log lines written by the most recent operation
    last,         \* the most recent operation: its name, argument and result
    tickpc,       \* position of the supervisor loop inside its tick body
    pending,      \* target temperatures of scheduled _startHeaterAfterDelay timers
    mqttDisconnectTime,  \* Watchdog._mqtt_disconnect_time, None while not set
    sdpc,         \* position of the shutdown handler
    race,         \* RaceSpec only: locks and statement positions of the two threads
    light,        \* fields of the Light object
    lightColorLogic,  \* fields of the LightColorLogic object (the color driver)
    shutdown,     \* the shutdown handler's run: flag, steps attempted, exit status
    timer         \* TimerSpec only: the fields of one Timer object

vars == <<now, heater, pump, relay, thermo, log, last, tickpc, pending, mqttDisconnectTime,
         sdpc, race, light, lightColorLogic, shutdown, timer>>

----------------------------------------------------------------------------
(* Bounds of the model and configuration values.                           *)

\* Last value of the clock; Advance is disabled there.
MaxTime == 3
\* Seconds that one clock step stands for.
SecondsPerStep == 60
\* config maxWaterTemp (degrees C).
maxWaterTemp == 33
\* config maxHeaterRuntimeSeconds.
maxRuntimeSeconds == 60
\* Most delayed heater starts scheduled and not yet run.
MaxPending == 1

\* Heater.runOneLoop: a reading older than this many seconds is stale.
SENSOR_STALE_SECONDS == 60
\* Automations: upper limit of an accepted target temperature.
MAX_TARGET_TEMP == 45
\* Watchdog: broker outage after which the pump is stopped too.
MQTT_OUTAGE_SECONDS == 300

\* RelayBlock.dontSwitchDevices (config noDevices / NO_DEVICES).
dontSwitchDevices == FALSE

----------------------------------------------------------------------------
(* Optional values: Python's None and a present value.                     *)

None == << >>
Some(v) == << v >>
IsNone(x) == x = << >>
Val(x) == x[1]

\* Readings the inlet sensor can deliver (readTemperature succeeds).
Readings == {0, maxWaterTemp - 2, maxWaterTemp - 1, maxWaterTemp}
\* targetTemp values of heater_reach_and_stop payloads.
PayloadTargets == {-1, 0, maxWaterTemp - 1, MAX_TARGET_TEMP + 1}
\* Temperatures a client of Heater.setInputTemp passes.
ClientTemps == Readings \cup {-1, maxWaterTemp + 1}
\* durationInMinutes values of pump_run_for_x_minutes payloads.
PayloadMinutes == {1}

----------------------------------------------------------------------------
(* Event log.                                                              *)

Opaque(name) == [name |-> name, from |-> "-", to |-> "-"]
StateEvent(name, from, to) == [name |-> name, from |-> from, to |-> to]
LogLine(text) == [name |-> "log", from |-> text, to |-> "-"]

\* Event.logOpaqueEvent / Event.logStateEvent / logging.*: append to the log.
Emit(w, e) == [w EXCEPT !.log = Append(@, e)]

Logged(l, e) == \E i \in 1..Len(l) : l[i] = e

----------------------------------------------------------------------------
(* Timer (src/src/Timer.py).  A timer is its _start_time: None or a clock  *)
(* value.                                                                  *)

Timer_start(t) == IF ~IsNone(t) THEN t ELSE Some(now)

Timer_stop(t) == None

Timer_elapsedSeconds(t) ==
    IF IsNone(t) THEN 0 ELSE (now - Val(t)) * SecondsPerStep

----------------------------------------------------------------------------
(* RelayBlock (src/src/RelayBlock.py).                                     *)

portOn(w, dev) ==
    IF dontSwitchDevices THEN w ELSE [w EXCEPT !.relay[dev] = TRUE]

portOff(w, dev) ==
    IF dontSwitchDevices THEN w ELSE [w EXCEPT !.relay[dev] = FALSE]

----------------------------------------------------------------------------
(* The world an operation runs in: the objects' fields, the log the        *)
(* operation writes and the value it returns.                              *)

World == [heater |-> heater, pump |-> pump, relay |-> relay,
          light |-> light, lightColorLogic |-> lightColorLogic,
          mqttDisconnectTime |-> mqttDisconnectTime,
          log |-> << >>, ret |-> "none"]

Return(w, r) == [w EXCEPT !.ret = r]

----------------------------------------------------------------------------
(* Pump (src/src/Pump.py).                                                 *)

RECURSIVE Pump_off(_), Pump_setModeOff(_)

Pump_stopPumpTimer(w) == [w EXCEPT !.pump.timer = Timer_stop(@)]

Pump_startPumpTimer(w) == [w EXCEPT !.pump.timer = Timer_start(@)]

Pump_isOn(w) == w.pump.state = "ON"

Pump_off(w) ==
    IF w.pump.state = "OFF" THEN w
    ELSE LET w1 == Emit(w, StateEvent("pump_state", w.pump.state, "OFF"))
             w2 == portOff(w1, "pump")
             w3 == [w2 EXCEPT !.pump.state = "OFF"]
             w4 == Pump_setModeOff(w3)
         IN  Pump_stopPumpTimer(w4)

\* A faulty setModeOff() that resets the mode and keeps runForXMinutes.
Pump_setModeOff_keepsMinutes(w) ==
    LET w1 == IF w.pump.mode # "OFF" THEN Emit(w, Opaque("pump_mode_off")) ELSE w
    IN  Pump_off([w1 EXCEPT !.pump.mode = "OFF"])

Pump_setModeOff(w) ==
    LET w1 == IF w.pump.mode # "OFF" THEN Emit(w, Opaque("pump_mode_off")) ELSE w
        w2 == [w1 EXCEPT !.pump.mode = "OFF", !.pump.runForXMinutes = None]
    IN  Pump_off(w2)

Pump_on(w) ==
    IF w.pump.state = "ON" THEN w
    ELSE LET w1 == Emit(w, StateEvent("pump_state", w.pump.state, "ON"))
             w2 == portOn(w1, "pump")
             w3 == [w2 EXCEPT !.pump.state = "ON"]
         IN  IF w3.pump.mode # "REACH_TIME_AND_STOP"
             THEN Pump_startPumpTimer(w3)
             ELSE w3

Pump_hardStop(w) == Pump_off(Emit(w, Opaque("pump_hard_stop")))

Pump_setRunForXMinutesAndStop(w, durationInMinutes) ==
    LET w1 == Emit(w, Opaque("pump_run_for_x_minutes"))
        w2 == Pump_startPumpTimer(Pump_stopPumpTimer(w1))
        w3 == [w2 EXCEPT !.pump.runForXMinutes = Some(durationInMinutes),
                         !.pump.mode = "REACH_TIME_AND_STOP"]
    IN  Pump_on(w3)

\* runOneLoop() with the timed run ending when the elapsed time reaches
\* runForXMinutes.
Pump_runOneLoop_atLimit(w) ==
    IF w.pump.state = "OFF" /\ w.pump.mode # "OFF" THEN Pump_setModeOff(w)
    ELSE IF w.pump.mode = "REACH_TIME_AND_STOP"
              /\ Timer_elapsedSeconds(w.pump.timer) >= 60 * Val(w.pump.runForXMinutes)
         THEN Pump_off(w)
         ELSE w

Pump_runOneLoop(w) ==
    IF w.pump.state = "OFF" /\ w.pump.mode # "OFF" THEN Pump_setModeOff(w)
    ELSE IF w.pump.mode = "REACH_TIME_AND_STOP"
              /\ Timer_elapsedSeconds(w.pump.timer) > 60 * Val(w.pump.runForXMinutes)
         THEN Pump_off(w)
         ELSE w

----------------------------------------------------------------------------
(* Heater (src/src/Heater.py).                                             *)

Heater_setModeOff(w) ==
    LET w1 == IF w.heater.mode # "OFF" THEN Emit(w, Opaque("heater_mode_off")) ELSE w
    IN  [w1 EXCEPT !.heater.mode = "OFF"]

Heater_off(w) ==
    LET w1 == IF w.heater.state # "OFF"
              THEN Emit(w, StateEvent("heater_state", w.heater.state, "OFF"))
              ELSE w
        w2 == portOff(w1, "heater")
        w3 == [w2 EXCEPT !.heater.state = "OFF"]
        w4 == Heater_setModeOff(w3)
    IN  [w4 EXCEPT !.heater.timer = Timer_stop(@)]

\* A faulty hardStop() that resets the mode and forgets off().
Heater_hardStop_modeOnly(w) == Heater_setModeOff(w)

Heater_hardStop(w) == Heater_off(Heater_setModeOff(w))

\* A faulty on() that energizes without looking at the pump.
Heater_pumpVerified_unchecked(w) == TRUE

\* The pump check of on(), made under both locks.
Heater_pumpVerified(w) == Pump_isOn(w)

\* The statements of on() after the pump check: relay, state, timer.
Heater_activate(w) ==
    LET w1 == IF w.heater.state # "OFF"
              THEN Emit(w, StateEvent("heater_state", w.heater.state, "ON"))
              ELSE w
        w2 == portOn(w1, "heater")
        w3 == [w2 EXCEPT !.heater.state = "ON"]
    IN  [w3 EXCEPT !.heater.timer = Timer_start(@)]

\* A faulty failure branch that has energized the relay before the pump check.
Heater_blocked_afterRelayWrite(w) ==
    Return(Emit(Emit(portOn(w, "heater"), LogLine("Cannot turn on - pump is not running")),
                Opaque("heater_blocked_no_pump")), "False")

\* The failure branch of on().
Heater_blocked(w) ==
    Return(Emit(Emit(w, LogLine("Cannot turn on - pump is not running")),
                Opaque("heater_blocked_no_pump")), "False")

Heater_on(w) ==
    IF ~Heater_pumpVerified(w) THEN Heater_blocked(w)
    ELSE Return(Heater_activate(w), "True")

Heater_isOn(w) == w.heater.state = "ON"

\* A faulty setInputTemp() that takes a reading of zero for a valid one.
Heater_setInputTemp_zeroValid(w, inputTemp) ==
    IF IsNone(inputTemp) \/ Val(inputTemp) < 0
    THEN Heater_hardStop(Emit(w, LogLine("Invalid input temperature")))
    ELSE [w EXCEPT !.heater.inputTemp = Val(inputTemp),
                   !.heater.lastInputTempUpdate = now]

Heater_setInputTemp(w, inputTemp) ==
    IF IsNone(inputTemp) \/ Val(inputTemp) <= 0
    THEN Heater_hardStop(Emit(w, LogLine("Invalid input temperature")))
    ELSE [w EXCEPT !.heater.inputTemp = Val(inputTemp),
                   !.heater.lastInputTempUpdate = now]

Heater_setModeHoldTemp(w, temp) ==
    LET w1 == Emit(w, Opaque("heater_mode_hold_temp"))
    IN  [w1 EXCEPT !.heater.targetTemp = temp, !.heater.mode = "HOLD"]

Heater_setModeReachTempAndStop(w, temp) ==
    LET w1 == Emit(w, Opaque("heater_mode_reach_and_stop"))
    IN  [w1 EXCEPT !.heater.targetTemp = temp, !.heater.mode = "REACH_AND_STOP"]

\* A faulty comparison that still counts the target itself as below it.
Heater_inputTempLessThen_orEqual(w, targetTemp) == w.heater.inputTemp <= targetTemp

Heater_inputTempLessThen(w, targetTemp) == w.heater.inputTemp < targetTemp

\* A faulty runOneLoop() without its pump check.
Heater_pumpStopped_unchecked(w) == FALSE

\* runOneLoop: the pump check made while the heater is ON.
Heater_pumpStopped(w) == w.heater.state = "ON" /\ ~Pump_isOn(w)

\* A faulty runtime check that already trips at the limit.
Heater_runtimeExceeded_atLimit(w) ==
    w.heater.state = "ON" /\ Timer_elapsedSeconds(w.heater.timer) >= maxRuntimeSeconds

\* runOneLoop: the maximum-runtime check made while the heater is ON.
Heater_runtimeExceeded(w) ==
    w.heater.state = "ON" /\ Timer_elapsedSeconds(w.heater.timer) > maxRuntimeSeconds

\* A faulty staleness check that already trips at the limit.
Heater_sensorStale_atLimit(w) ==
    w.heater.lastInputTempUpdate > 0
    /\ (now - w.heater.lastInputTempUpdate) * SecondsPerStep >= SENSOR_STALE_SECONDS

\* runOneLoop: the sensor staleness check.
Heater_sensorStale(w) ==
    w.heater.lastInputTempUpdate > 0
    /\ (now - w.heater.lastInputTempUpdate) * SecondsPerStep > SENSOR_STALE_SECONDS

\* A faulty temperature check that lets the limit itself pass.
Heater_overTemp_strict(w) == w.heater.inputTemp > maxWaterTemp

\* runOneLoop: the maximum water temperature check.
Heater_overTemp(w) == w.heater.inputTemp >= maxWaterTemp

\* runOneLoop: the mode branches after the safety checks.
Heater_modeBranch(w) ==
    IF w.heater.mode = "REACH_AND_STOP"
    THEN IF Heater_inputTempLessThen(w, w.heater.targetTemp)
         THEN Heater_on(w)
         ELSE LET w1 == Emit(w, Opaque("heater_mode_reach_and_stop_reached"))
                  w2 == Heater_off(w1)
              IN  [w2 EXCEPT !.heater.mode = "OFF"]
    ELSE IF w.heater.mode = "HOLD"
         THEN IF w.heater.inputTemp < w.heater.targetTemp
              THEN Heater_on(w)
              ELSE Heater_off(w)
         ELSE w

Heater_runOneLoop(w) ==
    IF Heater_pumpStopped(w)
    THEN Emit(Heater_hardStop(Emit(w, LogLine("EMERGENCY - Pump stopped"))),
              Opaque("heater_emergency_pump_stopped"))
    ELSE IF Heater_runtimeExceeded(w)
    THEN Emit(Heater_hardStop(Emit(w, LogLine("Maximum runtime exceeded"))),
              Opaque("heater_max_runtime_exceeded"))
    ELSE IF Heater_sensorStale(w)
    THEN Heater_hardStop(Emit(w, LogLine("Input sensor stale")))
    ELSE IF w.heater.state = "OFF" THEN Heater_off(w)
    ELSE IF Heater_overTemp(w) THEN Heater_off(w)
    ELSE Heater_modeBranch(w)

----------------------------------------------------------------------------
(* Light (src/src/Light.py) and its color driver                           *)
(* (src/src/LightColorLogic.py).  Of the light, its state and relay; of    *)
(* the driver, the command queue and the flags its worker thread reads.    *)

\* LightColorLogic.colorCount.
colorCount == 17

Light_on(w) == [portOn(w, "light") EXCEPT !.light.state = "ON"]

Light_off(w) == [portOff(w, "light") EXCEPT !.light.state = "OFF"]

Light_setStateMessageHandler(w, data) ==
    IF data = "ON" THEN Light_on(w) ELSE IF data = "OFF" THEN Light_off(w) ELSE w

\* stop(): the worker leaves its loop; a command it holds is interrupted.
LightColorLogic_stop(w) ==
    [w EXCEPT !.lightColorLogic.keepRunning = FALSE,
              !.lightColorLogic.interrupt_requested = TRUE]

\* hardStop(): interrupt the running command and clear the queue.
LightColorLogic_hardStop(w) ==
    [Emit(w, LogLine("LightColorLogic - hardStop called"))
        EXCEPT !.lightColorLogic.interrupt_requested = TRUE,
               !.lightColorLogic.command_queue = << >>]

LightColorLogic_setColor(w, colorId) ==
    IF ~(0 <= colorId /\ colorId < colorCount)
    THEN Emit(w, LogLine("invalid colorId"))
    ELSE [w EXCEPT !.lightColorLogic.command_queue = Append(@, colorId)]

\* data: the payload as an optional integer (None: int() does not accept it).
LightColorLogic_setColorMessageHandler(w, data) ==
    IF w.lightColorLogic.is_processing \/ Len(w.lightColorLogic.command_queue) > 0
    THEN Emit(w, LogLine("SKIPPING. A command is active or queued."))
    ELSE IF IsNone(data)
         THEN Emit(w, LogLine("invalid data for setColorMessageHandler"))
         ELSE LightColorLogic_setColor(w, Val(data))

----------------------------------------------------------------------------
(* Automations (src/src/Automations.py).  A payload is the record          *)
(* [json, mode, targetTemp]: whether it parses, its 'mode' field ("ON",    *)
(* "OFF", "missing" or another string) and its 'targetTemp' as an optional *)
(* integer (None: not an integer).                                         *)

HeaterPayloads ==
    {[json |-> FALSE, mode |-> "missing", targetTemp |-> None]}
    \cup {[json |-> TRUE, mode |-> m, targetTemp |-> None] : m \in {"missing", "OFF", "AUTO"}}
    \cup {[json |-> TRUE, mode |-> "ON", targetTemp |-> t] :
              t \in {None} \cup {Some(x) : x \in PayloadTargets}}

\* The validation of setHeaterReachAndStopMessageHandler for mode ON.
Automations_targetAccepted(payload) ==
    /\ ~IsNone(payload.targetTemp)
    /\ ~(Val(payload.targetTemp) <= 0 \/ Val(payload.targetTemp) > MAX_TARGET_TEMP)

\* Whether the handler schedules _startHeaterAfterDelay.
Automations_schedules(w, payload) ==
    /\ payload.json /\ payload.mode = "ON"
    /\ Automations_targetAccepted(payload)
    /\ Heater_inputTempLessThen(w, Val(payload.targetTemp))

\* The handler returns nothing; ret names the branch it took.  A rejected
\* command writes an error line to the debug log only and returns.
Automations_setHeaterReachAndStopMessageHandler(w, payload) ==
    IF ~payload.json THEN Return(w, "rejected")
    ELSE IF payload.mode = "missing" THEN Return(w, "rejected")
    ELSE IF payload.mode = "ON"
    THEN IF ~Automations_targetAccepted(payload)
         THEN Return(w, "rejected")
         ELSE IF Heater_inputTempLessThen(w, Val(payload.targetTemp))
              THEN Return(Pump_on(w), "scheduled")
              ELSE Return(w, "not_needed")
    ELSE IF payload.mode = "OFF" THEN Return(Heater_off(w), "off")
    ELSE Return(w, "rejected")

\* A callback that was cancelled before it fired: it does nothing.
Automations_startHeaterAfterDelay_cancelled(w, targetTemp) == w

\* A faulty callback that does not look at the pump before heater.on().
Automations_startHeaterAfterDelay_unchecked(w, targetTemp) ==
    LET w1 == Heater_on(w)
    IN  IF w1.ret = "True"
        THEN Emit(Heater_setModeReachTempAndStop(w1, targetTemp),
                  Opaque("automation_heating_started"))
        ELSE Emit(w1, LogLine("Heater failed to start"))

\* _startHeaterAfterDelay, run by the one-shot timer the handler started.
Automations_startHeaterAfterDelay(w, targetTemp) ==
    IF ~Pump_isOn(w)
    THEN Emit(w, Opaque("automation_heater_blocked"))
    ELSE LET w1 == Heater_on(w)
         IN  IF w1.ret = "True"
             THEN Emit(Heater_setModeReachTempAndStop(w1, targetTemp),
                       Opaque("automation_heating_started"))
             ELSE Emit(w1, LogLine("Heater failed to start"))

----------------------------------------------------------------------------
(* Watchdog (src/src/Watchdog.py).                                         *)

\* A faulty interlock that restores the flow instead of stopping the heater.
Watchdog_interlock_startsPump(w) ==
    IF Heater_isOn(w) /\ ~Pump_isOn(w)
    THEN Emit(Pump_on(w), Opaque("watchdog_heater_emergency_stop"))
    ELSE w

\* check(): the heater-pump interlock.
Watchdog_interlock(w) ==
    IF Heater_isOn(w) /\ ~Pump_isOn(w)
    THEN Emit(Heater_hardStop(w), Opaque("watchdog_heater_emergency_stop"))
    ELSE w

\* A faulty network check that shuts down every device, as the watchdog did
\* before pump and light were left running.
Watchdog_checkConnectivityNonBlocking_stopsAll(w, pingerConnected) ==
    IF pingerConnected = FALSE
    THEN Emit(LightColorLogic_hardStop(Heater_hardStop(Pump_hardStop(w))),
              Opaque("watchdog_network_loss"))
    ELSE w

\* A faulty network check that records the loss and stops nothing.
Watchdog_checkConnectivityNonBlocking_recordsOnly(w, pingerConnected) ==
    IF pingerConnected = FALSE
    THEN Emit(w, Opaque("watchdog_network_loss"))
    ELSE w

\* A faulty network check that switches the heater back on when the
\* network is there.
Watchdog_checkConnectivityNonBlocking_resumes(w, pingerConnected) ==
    IF pingerConnected = FALSE
    THEN Emit(Heater_hardStop(w), Opaque("watchdog_network_loss"))
    ELSE Heater_on(w)

Watchdog_checkConnectivityNonBlocking(w, pingerConnected) ==
    IF pingerConnected = FALSE
    THEN Emit(Heater_hardStop(w), Opaque("watchdog_network_loss"))
    ELSE w

\* MessageBus.connect(): one attempt to reach the broker; whether it
\* succeeds shows in what isConnected() answers at a later check.
MessageBus_connect(w) == Emit(w, LogLine("MQTT connect attempt"))

\* A faulty stamp that every check of an outage sets anew.
Watchdog_trackDisconnect_restamps(w) ==
    Emit([w EXCEPT !.mqttDisconnectTime = Some(now)], LogLine("MQTT disconnection detected"))

\* _checkMessageBusConnectivity: the first check of an outage stamps its time.
Watchdog_trackDisconnect(w) ==
    IF IsNone(w.mqttDisconnectTime)
    THEN Emit([w EXCEPT !.mqttDisconnectTime = Some(now)],
              LogLine("MQTT disconnection detected"))
    ELSE w

\* A faulty escalation that already trips at the limit.
Watchdog_outageExtended_atLimit(w) ==
    (now - Val(w.mqttDisconnectTime)) * SecondsPerStep >= MQTT_OUTAGE_SECONDS

\* _checkMessageBusConnectivity: whether the outage lasts longer than the limit.
Watchdog_outageExtended(w) ==
    (now - Val(w.mqttDisconnectTime)) * SecondsPerStep > MQTT_OUTAGE_SECONDS

Watchdog_checkMessageBusConnectivity(w, busConnected) ==
    IF ~busConnected
    THEN LET w0 == Watchdog_trackDisconnect(w)
             w1 == MessageBus_connect(w0)
             w2 == IF Heater_isOn(w1)
                   THEN Emit(Heater_hardStop(w1), Opaque("watchdog_mqtt_heater_stop"))
                   ELSE w1
         IN  IF Watchdog_outageExtended(w2)
             THEN Emit(Heater_hardStop(Pump_hardStop(w2)),
                       Opaque("watchdog_mqtt_extended_outage"))
             ELSE w2
    ELSE IF ~IsNone(w.mqttDisconnectTime)
         THEN [Emit(w, Opaque("watchdog_mqtt_reconnected"))
                  EXCEPT !.mqttDisconnectTime = None]
         ELSE w

\* check(), given what pinger.isConnected() and messageBus.isConnected() return.
Watchdog_check(w, pingerConnected, busConnected) ==
    Watchdog_checkMessageBusConnectivity(
        Watchdog_checkConnectivityNonBlocking(Watchdog_interlock(w), pingerConnected),
        busConnected)

----------------------------------------------------------------------------
(* The state after construction (src/src/pipool.py, lines 91-149): Pump()  *)
(* and Heater() end OFF with their relays inactive, the inlet thermometer  *)
(* holds the reading of its constructor (None when that read failed) and   *)
(* the watchdog has seen no broker outage.                                 *)

HeaterInit == [state |-> "OFF", mode |-> "OFF", targetTemp |-> 0, inputTemp |-> 0,
               lastInputTempUpdate |-> 0, timer |-> None]

PumpInit == [state |-> "OFF", mode |-> "OFF", runForXMinutes |-> None, timer |-> None]

\* Light.__init__ ends with off(); no cycle thread yet, the cycle lock free.
\* cycle_thread, once set, is the newest worker: the statement it is at, the
\* iterations it has left, its delay and the clock value at which its
\* current sleep ends.
LightInit == [state |-> "OFF", cycle_thread |-> << >>, cycle_lock |-> FALSE]

\* LightColorLogic.__init__: an empty command queue, no interrupt requested,
\* the worker thread running, the light's position unknown.  pc and command
\* are the statement the worker is at in task() and the color id of the
\* command it holds; stopping: a hardStop() is between its two statements.
LightColorLogicInit == [command_queue |-> << >>, interrupt_requested |-> FALSE,
                        keepRunning |-> TRUE, is_processing |-> FALSE,
                        isLightPositionKnown |-> FALSE, currentColorId |-> 0,
                        pc |-> "get", command |-> << >>, stopping |-> FALSE]

\* No call of Heater.on() or of a Pump mutator is in progress: both locks are
\* free.  hpc, ppc: the statement each thread is at; pop: the Pump method the
\* pump thread runs; checked: on() has seen the pump ON and not yet released
\* the pump's lock; hret: what on() returns; h0: heater.state when on() was
\* called.
\* The two threads that call the pump's mutators with no lock held.
PumpThreads == {"broker", "tick"}

RaceIdle == [activationLock |-> "free", stateLock |-> "free",
             hpc |-> "idle", ppc |-> "idle", pop |-> "none", checked |-> FALSE,
             hret |-> "none", h0 |-> "OFF",
             pc |-> [th \in PumpThreads |-> "idle"], raised |-> FALSE]

\* Timer.__init__: no start instant of either clock, not running.
TimerInit == [start_time |-> << >>, wall_start_time |-> << >>, isRunning |-> FALSE]

\* pipool.py before the first signal: _shutdown_requested is False, the
\* supervisor loop runs (pc "loop"), no step of the handler was attempted,
\* none raised, no signal was received, the process has no exit status.
ShutdownInit == [shutdown_requested |-> FALSE, pc |-> "loop", attempted |-> << >>,
                 raised |-> {}, signals |-> 0, exitCode |-> << >>]

\* The record of the most recent operation: the method run, its caller,
\* its argument, and what it returned (or what the environment answered).
Op(op, by, arg, ret) == [op |-> op, by |-> by, arg |-> arg, ret |-> ret]

Init ==
    /\ now = 1
    /\ heater = HeaterInit
    /\ pump = PumpInit
    /\ relay = [heater |-> FALSE, pump |-> FALSE, light |-> FALSE]
    /\ light = LightInit
    /\ lightColorLogic = LightColorLogicInit
    /\ thermo \in {None} \cup {Some(r) : r \in Readings}
    /\ log = << >>
    /\ last = Op("init", "main", None, "none")
    /\ tickpc = "setInputTemp"
    /\ pending = << >>
    /\ mqttDisconnectTime = None
    /\ sdpc = "idle"
    /\ race = RaceIdle
    /\ shutdown = ShutdownInit
    /\ timer = TimerInit

\* The world w becomes the state; op, by, arg name the operation that produced it.
Commit(w, op, by, arg) ==
    /\ heater' = w.heater
    /\ pump' = w.pump
    /\ relay' = w.relay
    /\ light' = w.light
    /\ lightColorLogic' = w.lightColorLogic
    /\ mqttDisconnectTime' = w.mqttDisconnectTime
    /\ log' = w.log
    /\ last' = Op(op, by, arg, w.ret)

----------------------------------------------------------------------------
(* Thermometer (src/src/Thermometer.py) and the way the loop reads it.     *)

\* readTemp(): currentTemp after a read that delivered `reading` (None: the
\* sensor raised).
Thermometer_readTemp(currentTemp, reading) ==
    IF IsNone(reading) THEN currentTemp ELSE reading

\* getCurrentReading(): what the loop hands to heater.setInputTemp.
Thermometer_getCurrentReading(currentTemp) == currentTemp

----------------------------------------------------------------------------
(* The supervisor loop (src/src/pipool.py, lines 228-258).  The loop runs  *)
(* on the main thread and stops for good once the shutdown handler runs.   *)

Ticking == sdpc = "idle"

\* sensors.collectSensorStatus() reads the inlet sensor (Thermometer.status()
\* -> readTemp()), then
\* heater.setInputTemp(sensors.getSensor("temp_sensor_in").getCurrentReading()).
\* last.ret tells whether the read succeeded, last.arg is the value pushed.
TickSetInputTemp ==
    /\ Ticking /\ tickpc = "setInputTemp"
    /\ \E reading \in {None} \cup {Some(r) : r \in Readings} :
          LET cur == Thermometer_readTemp(thermo, reading)
              pushed == Thermometer_getCurrentReading(cur)
              w == Heater_setInputTemp(World, pushed)
          IN  /\ thermo' = cur
              /\ Commit(Return(w, IF IsNone(reading) THEN "read_failed" ELSE "read_ok"),
                        "Heater_setInputTemp", "tick", pushed)
    /\ tickpc' = "heater"
    /\ UNCHANGED <<now, pending, sdpc, race, shutdown, timer>>

TickHeaterRunOneLoop ==
    /\ Ticking /\ tickpc = "heater"
    /\ Commit(Heater_runOneLoop(World), "Heater_runOneLoop", "tick", None)
    /\ tickpc' = "pump"
    /\ UNCHANGED <<now, thermo, pending, sdpc, race, shutdown, timer>>

TickPumpRunOneLoop ==
    /\ Ticking /\ tickpc = "pump"
    /\ Commit(Pump_runOneLoop(World), "Pump_runOneLoop", "tick", None)
    /\ tickpc' = "watchdog"
    /\ UNCHANGED <<now, thermo, pending, sdpc, race, shutdown, timer>>

\* watchdog.check(), then publish, messageBus.stop() and time.sleep(1).
\* The pinger's answer is an input of the check.  Spec covers the runs in
\* which the broker session, which delivers the commands, is up at the check.
TickWatchdogCheck ==
    /\ Ticking /\ tickpc = "watchdog"
    /\ \E pingerConnected \in BOOLEAN :
          Commit(Watchdog_check(World, pingerConnected, TRUE), "Watchdog_check",
                 "tick", None)
    /\ tickpc' = "sleep"
    /\ UNCHANGED <<now, thermo, pending, sdpc, race, shutdown, timer>>

\* The sleep ends: the next tick starts with messageBus.start().
TickSleep ==
    /\ Ticking /\ tickpc = "sleep"
    /\ tickpc' = "setInputTemp"
    /\ last' = Op("sleep", "tick", None, "none")
    /\ log' = << >>
    /\ UNCHANGED <<now, heater, pump, relay, thermo, pending, mqttDisconnectTime, sdpc, race,
                   light, lightColorLogic, shutdown, timer>>

----------------------------------------------------------------------------
(* Broker callbacks (src/src/MessageBus.py on_message, handlers registered *)
(* in src/src/pipool.py lines 123-132).  The broker thread runs between    *)
(* messageBus.start() and messageBus.stop() of a tick, and until the       *)
(* shutdown handler stops the bus.                                         *)

Delivering == tickpc # "sleep" /\ sdpc \in {"idle", "pump", "services"}

Pump_setStateMessageHandler(w, data) ==
    IF data = "ON" THEN Pump_on(w) ELSE IF data = "OFF" THEN Pump_off(w) ELSE w

Pump_setOnMessageHandler(w, data) == IF data = "ON" THEN Pump_on(w) ELSE w

Pump_setOffMessageHandler(w, data) == IF data = "OFF" THEN Pump_off(w) ELSE w

Heater_setStateMessageHandler(w, data) ==
    IF data = "ON" THEN Heater_on(w) ELSE IF data = "OFF" THEN Heater_off(w) ELSE w

\* Payloads of pipool/control/pump_run_for_x_minutes, abstracted to what the
\* handler looks at: whether json.loads() accepts the text, its 'mode'
\* ("missing": no such key) and its 'durationInMinutes' as an optional
\* integer (None: missing, or text int() does not accept).
PumpPayloads ==
    {[json |-> FALSE, mode |-> "missing", durationInMinutes |-> None]}
    \cup {[json |-> TRUE, mode |-> m, durationInMinutes |-> None] :
              m \in {"missing", "ON", "OFF", "AUTO"}}
    \cup {[json |-> TRUE, mode |-> "ON", durationInMinutes |-> Some(m)] :
              m \in PayloadMinutes}

\* The handler validates nothing: json.loads(), payload['mode'] and int()
\* raise out of the handler (ret "raised", nothing done before), and every
\* mode other than "ON" ends in pump.setModeOff().
Automations_setPumpRunForXMinutesMessageHandler(w, payload) ==
    IF ~payload.json THEN Return(w, "raised")
    ELSE IF payload.mode = "missing" THEN Return(w, "raised")
    ELSE IF payload.mode = "ON"
    THEN IF IsNone(payload.durationInMinutes)
         THEN Return(w, "raised")
         ELSE Pump_setRunForXMinutesAndStop(w, Val(payload.durationInMinutes))
    ELSE Pump_setModeOff(w)

\* pipool/control/pump_state with payload ON or OFF.
BrokerPumpState ==
    /\ Delivering
    /\ \E data \in {"ON", "OFF"} :
          Commit(Pump_setStateMessageHandler(World, data), "Pump_" \o data, "broker", None)
    /\ UNCHANGED <<now, thermo, tickpc, pending, sdpc, race, shutdown, timer>>

\* pipool/control/pump_on with payload ON.
BrokerPumpOn ==
    /\ Delivering
    /\ Commit(Pump_setOnMessageHandler(World, "ON"), "Pump_ON", "broker", None)
    /\ UNCHANGED <<now, thermo, tickpc, pending, sdpc, race, shutdown, timer>>

\* pipool/control/pump_off with payload OFF.
BrokerPumpOff ==
    /\ Delivering
    /\ Commit(Pump_setOffMessageHandler(World, "OFF"), "Pump_OFF", "broker", None)
    /\ UNCHANGED <<now, thermo, tickpc, pending, sdpc, race, shutdown, timer>>

\* pipool/control/heater_state with payload ON or OFF.
BrokerHeaterState ==
    /\ Delivering
    /\ \E data \in {"ON", "OFF"} :
          Commit(Heater_setStateMessageHandler(World, data), "Heater_" \o data, "broker", None)
    /\ UNCHANGED <<now, thermo, tickpc, pending, sdpc, race, shutdown, timer>>

\* pipool/control/heater_reach_and_stop.
BrokerHeaterReachAndStop ==
    /\ Delivering
    /\ \E payload \in HeaterPayloads :
          /\ Automations_schedules(World, payload) => Len(pending) < MaxPending
          /\ Commit(Automations_setHeaterReachAndStopMessageHandler(World, payload),
                    "heater_reach_and_stop", "broker", None)
          /\ pending' = IF Automations_schedules(World, payload)
                        THEN Append(pending, Val(payload.targetTemp))
                        ELSE pending
    /\ UNCHANGED <<now, thermo, tickpc, sdpc, race, shutdown, timer>>

\* pipool/control/pump_run_for_x_minutes.
BrokerPumpRunForXMinutes ==
    /\ Delivering
    /\ \E payload \in PumpPayloads :
          Commit(Automations_setPumpRunForXMinutesMessageHandler(World, payload),
                 "pump_run_for_x_minutes", "broker", payload.durationInMinutes)
    /\ UNCHANGED <<now, thermo, tickpc, pending, sdpc, race, shutdown, timer>>

\* The threading.Timer scheduled by the heat-to-T handler fires.
TimerCallback ==
    /\ pending # << >> /\ sdpc # "done"
    /\ Commit(Automations_startHeaterAfterDelay(World, Head(pending)),
              "startHeaterAfterDelay", "timer", Some(Head(pending)))
    /\ pending' = Tail(pending)
    /\ UNCHANGED <<now, thermo, tickpc, sdpc, race, shutdown, timer>>

----------------------------------------------------------------------------
(* The environment.  A clock step is much longer than a tick body, so the  *)
(* clock moves while the loop sleeps.                                      *)

Advance ==
    /\ now < MaxTime /\ tickpc = "sleep" /\ sdpc = "idle"
    /\ now' = now + 1
    /\ UNCHANGED <<heater, pump, relay, thermo, log, last, tickpc, pending,
                   mqttDisconnectTime, sdpc, race, light, lightColorLogic, shutdown, timer>>

----------------------------------------------------------------------------
(* The shutdown handler (src/src/pipool.py, lines 161-212), run on the     *)
(* main thread by SIGINT/SIGTERM: the loop does not resume.                *)

ShutdownHeater ==
    /\ sdpc = "idle"
    /\ Commit(Heater_hardStop(World), "Heater_hardStop", "shutdown", None)
    /\ sdpc' = "pump"
    /\ tickpc' = "stopped"
    /\ UNCHANGED <<now, thermo, pending, race, shutdown, timer>>

ShutdownPump ==
    /\ sdpc = "pump"
    /\ Commit(Pump_hardStop(World), "Pump_hardStop", "shutdown", None)
    /\ sdpc' = "services"
    /\ UNCHANGED <<now, thermo, tickpc, pending, race, shutdown, timer>>

\* light.off(), lightColorLogic.stop(), pinger.stop(), messageBus.stop()
ShutdownServices ==
    /\ sdpc = "services"
    /\ Commit(LightColorLogic_stop(Light_off(World)), "messageBus_stop", "shutdown", None)
    /\ sdpc' = "gpio"
    /\ UNCHANGED <<now, thermo, tickpc, pending, race, shutdown, timer>>

\* gpioController.cleanup(): every output returns to inactive; then the
\* system_shutdown event and sys.exit(0).
ShutdownGpioCleanup ==
    /\ sdpc = "gpio"
    /\ relay' = [d \in DOMAIN relay |-> FALSE]
    /\ sdpc' = "done"
    /\ last' = Op("gpio_cleanup", "shutdown", None, "none")
    /\ log' = <<Opaque("system_shutdown")>>
    /\ UNCHANGED <<now, heater, pump, thermo, tickpc, pending, mqttDisconnectTime, race,
                   light, lightColorLogic, shutdown, timer>>

----------------------------------------------------------------------------
(* A client of the two actuators that calls their public methods in any     *)
(* order, as the safety tests of src/tests/safety do: the contracts of the  *)
(* methods from every state and mode the methods can produce.               *)

\* Temperatures the client passes to the mode setters.
ClientTargets == {maxWaterTemp - 1, maxWaterTemp + 1}

ClientUnchanged == UNCHANGED <<now, thermo, tickpc, pending, sdpc, race, shutdown, timer>>

ClientHeaterOn ==
    Commit(Heater_on(World), "Heater_on", "client", None) /\ ClientUnchanged

ClientHeaterOff ==
    Commit(Heater_off(World), "Heater_off", "client", None) /\ ClientUnchanged

ClientHeaterHardStop ==
    Commit(Heater_hardStop(World), "Heater_hardStop", "client", None) /\ ClientUnchanged

ClientHeaterSetInputTemp ==
    /\ \E inputTemp \in {None} \cup {Some(r) : r \in ClientTemps} :
          Commit(Heater_setInputTemp(World, inputTemp), "Heater_setInputTemp", "client",
                 inputTemp)
    /\ ClientUnchanged

ClientHeaterSetMode ==
    /\ \/ \E temp \in ClientTargets :
              Commit(Heater_setModeHoldTemp(World, temp), "Heater_setModeHoldTemp",
                     "client", Some(temp))
       \/ \E temp \in ClientTargets :
              Commit(Heater_setModeReachTempAndStop(World, temp),
                     "Heater_setModeReachTempAndStop", "client", Some(temp))
       \/ Commit(Heater_setModeOff(World), "Heater_setModeOff", "client", None)
    /\ ClientUnchanged

ClientHeaterRunOneLoop ==
    Commit(Heater_runOneLoop(World), "Heater_runOneLoop", "client", None) /\ ClientUnchanged

ClientPumpOn ==
    Commit(Pump_on(World), "Pump_on", "client", None) /\ ClientUnchanged

ClientPumpOff ==
    Commit(Pump_off(World), "Pump_off", "client", None) /\ ClientUnchanged

ClientPumpHardStop ==
    Commit(Pump_hardStop(World), "Pump_hardStop", "client", None) /\ ClientUnchanged

ClientPumpSetMode ==
    /\ \/ \E minutes \in PayloadMinutes :
              Commit(Pump_setRunForXMinutesAndStop(World, minutes),
                     "Pump_setRunForXMinutesAndStop", "client", Some(minutes))
       \/ Commit(Pump_setModeOff(World), "Pump_setModeOff", "client", None)
    /\ ClientUnchanged

ClientPumpRunOneLoop ==
    Commit(Pump_runOneLoop(World), "Pump_runOneLoop", "client", None) /\ ClientUnchanged

\* Time passes between two calls.
ClientAdvance ==
    /\ now < MaxTime
    /\ now' = now + 1
    /\ UNCHANGED <<heater, pump, relay, thermo, log, last, tickpc, pending,
                   mqttDisconnectTime, sdpc, race, light, lightColorLogic, shutdown, timer>>

ApiInit == Init /\ thermo = None

ApiNext ==
    \/ ClientHeaterOn \/ ClientHeaterOff \/ ClientHeaterHardStop
    \/ ClientHeaterSetInputTemp \/ ClientHeaterSetMode \/ ClientHeaterRunOneLoop
    \/ ClientPumpOn \/ ClientPumpOff \/ ClientPumpHardStop
    \/ ClientPumpSetMode \/ ClientPumpRunOneLoop
    \/ ClientAdvance

ApiSpec == ApiInit /\ [][ApiNext]_vars

----------------------------------------------------------------------------
(* Heater.on() on one thread against Pump.on(), Pump.off() and              *)
(* Pump.hardStop() on another, statement by statement, under                *)
(* Heater._activation_lock and Pump._state_lock (Heater.py lines 131-154,   *)
(* Pump.py lines 48-88).  The threads' owner names are "H" and "P".         *)

RaceUnchanged ==
    UNCHANGED <<now, thermo, tickpc, pending, mqttDisconnectTime, sdpc, light, lightColorLogic, shutdown, timer>>

\* A pump whose _state_lock is a plain Lock: its owner cannot take it again.
Pump_stateLockAcquirable_exclusive(r, th) == r.stateLock = "free"

\* `with self._state_lock:` with the RLock of Pump.__init__: the thread th
\* enters when the lock is free or th owns it already.
Pump_stateLockAcquirable(r, th) == r.stateLock \in {"free", th}

\* A faulty on() that enters its critical section without the pump's lock.
Heater_takePumpLock_skipped(r) == r

\* `with self.pump._state_lock:` of Heater.on().
Heater_takePumpLock(r) == [r EXCEPT !.stateLock = "H"]

\* The end of that `with` block.
Heater_releasePumpLock(r) ==
    IF r.stateLock = "H" THEN [r EXCEPT !.stateLock = "free"] ELSE r

\* The heater thread calls on().
RaceHeaterCall ==
    /\ race.hpc = "idle"
    /\ race' = [race EXCEPT !.hpc = "acqA", !.hret = "none", !.h0 = heater.state]
    /\ UNCHANGED <<heater, pump, relay, log, last>> /\ RaceUnchanged

RaceHeaterAcquireActivation ==
    /\ race.hpc = "acqA" /\ race.activationLock = "free"
    /\ race' = [race EXCEPT !.activationLock = "H", !.hpc = "acqS"]
    /\ UNCHANGED <<heater, pump, relay, log, last>> /\ RaceUnchanged

RaceHeaterAcquirePump ==
    /\ race.hpc = "acqS" /\ Pump_stateLockAcquirable(race, "H")
    /\ race' = [Heater_takePumpLock(race) EXCEPT !.hpc = "check"]
    /\ UNCHANGED <<heater, pump, relay, log, last>> /\ RaceUnchanged

\* `if not self.pump.isOn():` and, when it fails, the failure branch.
RaceHeaterCheck ==
    /\ race.hpc = "check"
    /\ IF Heater_pumpVerified(World)
       THEN /\ race' = [race EXCEPT !.hpc = "activate", !.checked = TRUE]
            /\ UNCHANGED <<heater, pump, relay, log, last>>
       ELSE /\ race' = [race EXCEPT !.hpc = "relS", !.hret = "False"]
            /\ Commit(Heater_blocked(World), "Heater_on", "H", None)
    /\ RaceUnchanged

\* The relay write, the state assignment and the timer start.
RaceHeaterActivate ==
    /\ race.hpc = "activate"
    /\ race' = [race EXCEPT !.hpc = "relS", !.hret = "True"]
    /\ Commit(Return(Heater_activate(World), "True"), "Heater_on", "H", None)
    /\ RaceUnchanged

RaceHeaterReleasePump ==
    /\ race.hpc = "relS"
    /\ race' = [Heater_releasePumpLock(race) EXCEPT !.hpc = "relA", !.checked = FALSE]
    /\ UNCHANGED <<heater, pump, relay, log, last>> /\ RaceUnchanged

RaceHeaterReleaseActivation ==
    /\ race.hpc = "relA"
    /\ race' = [race EXCEPT !.activationLock = "free", !.hpc = "idle"]
    /\ UNCHANGED <<heater, pump, relay, log, last>> /\ RaceUnchanged

\* Between two calls of on() the heater thread calls off().
RaceHeaterOff ==
    /\ race.hpc = "idle" /\ heater.state = "ON"
    /\ Commit(Heater_off(World), "Heater_off", "H", None)
    /\ UNCHANGED race /\ RaceUnchanged

\* Another thread (the watchdog in the tick, the signal handler) calls
\* heater.hardStop() while the heater is ON or an on() is in progress:
\* hardStop() and off() take no lock, so the call waits for nothing.
RaceExternalHardStop ==
    /\ heater.state = "ON" \/ race.hpc # "idle"
    /\ Commit(Heater_hardStop(World), "Heater_hardStop", "watchdog", None)
    /\ UNCHANGED race /\ RaceUnchanged

\* The pump thread calls on(), off() or hardStop(); hardStop() records its
\* event before it calls off().
RacePumpCall ==
    /\ race.ppc = "idle"
    /\ \E m \in {"on", "off", "hardStop"} :
          /\ race' = [race EXCEPT !.ppc = "acq", !.pop = m]
          /\ IF m = "hardStop"
             THEN Commit(Emit(World, Opaque("pump_hard_stop")), "Pump_hardStop", "P", None)
             ELSE UNCHANGED <<heater, pump, relay, log, last>>
    /\ RaceUnchanged

\* `with self._state_lock:` of Pump.on() and Pump.off().
RacePumpAcquire ==
    /\ race.ppc = "acq" /\ Pump_stateLockAcquirable(race, "P")
    /\ race' = [race EXCEPT !.stateLock = "P", !.ppc = "body"]
    /\ UNCHANGED <<heater, pump, relay, log, last>> /\ RaceUnchanged

\* off() of a pump that is ON calls setModeOff(), which calls off(), which
\* enters `with self._state_lock:` again on the same thread.
RacePumpReenters == race.pop # "on" /\ pump.state = "ON"

\* The body of Pump.on() or Pump.off() under the lock.
RacePumpBody ==
    /\ race.ppc = "body"
    /\ RacePumpReenters => Pump_stateLockAcquirable(race, "P")
    /\ race' = [race EXCEPT !.ppc = "rel"]
    /\ IF race.pop = "on"
       THEN Commit(Pump_on(World), "Pump_on", "P", None)
       ELSE Commit(Pump_off(World), "Pump_off", "P", None)
    /\ RaceUnchanged

RacePumpRelease ==
    /\ race.ppc = "rel"
    /\ race' = [race EXCEPT !.stateLock = IF @ = "P" THEN "free" ELSE @,
                            !.ppc = "idle", !.pop = "none"]
    /\ UNCHANGED <<heater, pump, relay, log, last>> /\ RaceUnchanged

RaceInit == Init /\ thermo = None

RaceNext ==
    \/ RaceHeaterCall \/ RaceHeaterAcquireActivation \/ RaceHeaterAcquirePump
    \/ RaceHeaterCheck \/ RaceHeaterActivate
    \/ RaceHeaterReleasePump \/ RaceHeaterReleaseActivation \/ RaceHeaterOff
    \/ RacePumpCall \/ RacePumpAcquire \/ RacePumpBody \/ RacePumpRelease

RaceSpec == RaceInit /\ [][RaceNext]_vars

\* The same two threads with a third that stops the heater.
StopRaceNext == RaceNext \/ RaceExternalHardStop

StopRaceSpec == RaceInit /\ [][StopRaceNext]_vars

----------------------------------------------------------------------------
(* The watchdog under every answer of the pinger and of the broker session *)
(* (src/src/Watchdog.py; src/tests/safety/test_watchdog.py drives check()  *)
(* the same way): commands switch pump, heater and light between checks,   *)
(* the color driver receives and works off commands, and the clock runs    *)
(* past the outage limit.                                                  *)

\* Last value of the clock in WatchdogSpec.
MaxWatchTime == 7

\* Color ids of light_set_color payloads.
PayloadColors == {3}

WatchUnchanged == UNCHANGED <<now, thermo, tickpc, pending, sdpc, race, shutdown, timer>>

\* One command of the worker's loop in task(): a command taken from the
\* queue is dropped if an interrupt was requested, and run otherwise (the
\* light pulses of a running command are left out).
LightColorLogic_task(w) ==
    IF w.lightColorLogic.interrupt_requested
    THEN Emit([w EXCEPT !.lightColorLogic.interrupt_requested = FALSE,
                        !.lightColorLogic.command_queue = Tail(@)],
              LogLine("command skipped due to interrupt"))
    ELSE [w EXCEPT !.lightColorLogic.command_queue = Tail(@)]

\* check(); arg records what pinger.isConnected() and
\* messageBus.isConnected() answered.
WatchCheck ==
    /\ \E pingerConnected \in BOOLEAN, busConnected \in BOOLEAN :
          Commit(Watchdog_check(World, pingerConnected, busConnected), "Watchdog_check",
                 "watch", <<pingerConnected, busConnected>>)
    /\ WatchUnchanged

WatchPumpState ==
    /\ \E data \in {"ON", "OFF"} :
          Commit(Pump_setStateMessageHandler(World, data), "Pump_" \o data, "command", None)
    /\ WatchUnchanged

WatchHeaterState ==
    /\ \E data \in {"ON", "OFF"} :
          Commit(Heater_setStateMessageHandler(World, data), "Heater_" \o data, "command", None)
    /\ WatchUnchanged

WatchLightState ==
    /\ \E data \in {"ON", "OFF"} :
          Commit(Light_setStateMessageHandler(World, data), "Light_" \o data, "command", None)
    /\ WatchUnchanged

WatchSetColor ==
    /\ \E colorId \in PayloadColors :
          Commit(LightColorLogic_setColorMessageHandler(World, Some(colorId)),
                 "light_set_color", "command", Some(colorId))
    /\ WatchUnchanged

WatchColorWorker ==
    /\ lightColorLogic.keepRunning /\ lightColorLogic.command_queue # << >>
    /\ Commit(LightColorLogic_task(World), "LightColorLogic_task", "worker", None)
    /\ WatchUnchanged

WatchAdvance ==
    /\ now < MaxWatchTime
    /\ now' = now + 1
    /\ UNCHANGED <<heater, pump, relay, thermo, log, last, tickpc, pending,
                   mqttDisconnectTime, sdpc, race, light, lightColorLogic, shutdown, timer>>

WatchdogInit == Init /\ thermo = None

WatchdogNext ==
    \/ WatchCheck \/ WatchPumpState \/ WatchHeaterState \/ WatchLightState
    \/ WatchSetColor \/ WatchColorWorker \/ WatchAdvance

WatchdogSpec == WatchdogInit /\ [][WatchdogNext]_vars

----------------------------------------------------------------------------
(* The shutdown handler statement by statement (src/src/pipool.py:161-224): *)
(* each call of the handler either completes or raises, a second signal    *)
(* can arrive between any two calls, and the interpreter runs the atexit   *)
(* hook once SystemExit has left the main thread.  Before the first signal *)
(* the broker delivers commands and a tick of the main loop can raise      *)
(* (src/src/pipool.py:228-270).                                            *)

\* Signals the environment sends to one run of the process.
MaxSignals == 2

\* The calls of shutdown_handler in program order.
ShutdownSteps ==
    <<"heater.hardStop", "pump.hardStop", "light.off", "lightColorLogic.stop",
      "pinger.stop", "messageBus.stop", "gpioController.cleanup", "system_shutdown",
      "sys.exit">>

\* Position of a call in the handler.
ShutdownIndex(step) == CHOOSE i \in DOMAIN ShutdownSteps : ShutdownSteps[i] = step

\* The calls that can raise an Exception: they write a GPIO line, join a
\* thread or stop the network loop.  Pinger.stop() only sets a flag, and
\* DB.logOpaqueEvent catches what the database raises.
ShutdownCanRaise ==
    {"heater.hardStop", "pump.hardStop", "light.off", "lightColorLogic.stop",
     "messageBus.stop", "gpioController.cleanup"}

\* Where the handler continues when a call raises and the handler has no
\* try block around anything: the exception leaves the handler.
shutdown_handler_afterRaise_unguarded(step) == "atexit"

\* Where the handler continues when a call raises: behind the except clause
\* of the try block the call is in (phases 1 to 5).
shutdown_handler_afterRaise(step) ==
    CASE step = "heater.hardStop" -> "pump.hardStop"
      [] step = "pump.hardStop" -> "light.off"
      [] step \in {"light.off", "lightColorLogic.stop"} -> "pinger.stop"
      [] step \in {"pinger.stop", "messageBus.stop"} -> "gpioController.cleanup"
      [] step = "gpioController.cleanup" -> "system_shutdown"

\* What a call that completes does to the devices.
shutdown_handler_call(w, step) ==
    CASE step = "heater.hardStop" -> Heater_hardStop(w)
      [] step = "pump.hardStop" -> Pump_hardStop(w)
      [] step = "light.off" -> Light_off(w)
      [] step = "lightColorLogic.stop" -> LightColorLogic_stop(w)
      [] step = "gpioController.cleanup" ->
            Return([w EXCEPT !.relay = [d \in DOMAIN w.relay |-> FALSE]], "none")
      [] step = "system_shutdown" -> Emit(w, Opaque("system_shutdown"))
      [] OTHER -> Return(w, "none")

ShutdownUnchanged == UNCHANGED <<now, thermo, tickpc, pending, sdpc, race, timer>>

\* Before any signal the broker delivers pump_state, heater_state,
\* light_state and light_set_color commands.
ShutdownLoopCommand ==
    /\ shutdown.pc = "loop"
    /\ \E dev \in {"Pump", "Heater", "Light", "LightColorLogic"}, data \in {"ON", "OFF"} :
          Commit(CASE dev = "Pump" -> Pump_setStateMessageHandler(World, data)
                   [] dev = "Heater" -> Heater_setStateMessageHandler(World, data)
                   [] dev = "Light" -> Light_setStateMessageHandler(World, data)
                   [] dev = "LightColorLogic" ->
                         LightColorLogic_setColorMessageHandler(World,
                             IF data = "ON" THEN Some(3) ELSE None),
                 dev \o "_" \o data, "command", None)
    /\ UNCHANGED shutdown
    /\ ShutdownUnchanged

\* The except clause of the main loop without the heater's hard stop.
mainLoop_exceptionHandler_pumpOnly(w) ==
    Emit(LightColorLogic_hardStop(Pump_hardStop(w)),
         LogLine("Emergency stop triggered due to main loop exception"))

\* The except clause of the main loop: pump.hardStop(), heater.hardStop(),
\* lightColorLogic.hardStop(), then the error line (and time.sleep(5)).
mainLoop_exceptionHandler(w) ==
    Emit(LightColorLogic_hardStop(Heater_hardStop(Pump_hardStop(w))),
         LogLine("Emergency stop triggered due to main loop exception"))

\* A call of the tick body raises an Exception: the loop's except clause
\* runs, and the loop goes on to test _shutdown_requested again.
MainLoopTickRaises ==
    /\ shutdown.pc = "loop"
    /\ Commit(mainLoop_exceptionHandler(World), "main_loop_error", "tick", None)
    /\ UNCHANGED shutdown
    /\ ShutdownUnchanged

\* SIGINT or SIGTERM with _shutdown_requested still False: the handler sets
\* the flag and goes on to phase 1.
ShutdownFirstSignal ==
    /\ shutdown.signals < MaxSignals
    /\ ~shutdown.shutdown_requested
    /\ shutdown' = [shutdown EXCEPT !.signals = @ + 1, !.shutdown_requested = TRUE,
                                    !.pc = ShutdownSteps[1]]
    /\ UNCHANGED <<heater, pump, relay, light, lightColorLogic, mqttDisconnectTime, log, last>>
    /\ ShutdownUnchanged

\* A signal while the handler is between two of its calls: the nested
\* handler finds the flag set and calls sys.exit(1); SystemExit is no
\* Exception, so no except clause of the interrupted handler nor of the main
\* loop catches it, and the interpreter starts to exit with status 1.
ShutdownSecondSignal ==
    /\ shutdown.signals < MaxSignals
    /\ shutdown.shutdown_requested
    /\ shutdown.pc \in {ShutdownSteps[i] : i \in DOMAIN ShutdownSteps}
    /\ shutdown' = [shutdown EXCEPT !.signals = @ + 1, !.pc = "atexit", !.exitCode = Some(1)]
    /\ UNCHANGED <<heater, pump, relay, light, lightColorLogic, mqttDisconnectTime, log, last>>
    /\ ShutdownUnchanged

\* The handler makes its next call, which completes.  sys.exit(0) leaves
\* the handler and the main loop; the interpreter starts to exit.
ShutdownStep ==
    /\ shutdown.pc \in {ShutdownSteps[i] : i \in DOMAIN ShutdownSteps}
    /\ LET step == shutdown.pc
           i == ShutdownIndex(step)
       IN  /\ Commit(shutdown_handler_call(World, step), step, "shutdown", None)
           /\ shutdown' = [shutdown EXCEPT
                  !.attempted = Append(@, step),
                  !.pc = IF step = "sys.exit" THEN "atexit" ELSE ShutdownSteps[i + 1],
                  !.exitCode = IF step = "sys.exit" THEN Some(0) ELSE @]
    /\ ShutdownUnchanged

\* The handler makes its next call, which raises before it changed
\* anything: the except clause of its try block logs the error.
ShutdownStepRaises ==
    /\ shutdown.pc \in ShutdownCanRaise
    /\ LET step == shutdown.pc
       IN  /\ Commit(Emit(Return(World, "raised"), LogLine("Shutdown: Error")), step,
                     "shutdown", None)
           /\ shutdown' = [shutdown EXCEPT
                  !.attempted = Append(@, step),
                  !.raised = @ \cup {step},
                  !.pc = shutdown_handler_afterRaise(step),
                  !.exitCode = IF shutdown_handler_afterRaise(step) = "atexit"
                               THEN Some(1) ELSE @]
    /\ ShutdownUnchanged

\* atexit runs shutdown_handler(None, None): the flag is set, so the handler
\* calls sys.exit(1) at once; the interpreter ignores a SystemExit raised in
\* an exit hook and ends the process with the status it already has.
ShutdownAtExit ==
    /\ shutdown.pc = "atexit"
    /\ shutdown.shutdown_requested
    /\ shutdown' = [shutdown EXCEPT !.pc = "exited"]
    /\ UNCHANGED <<heater, pump, relay, light, lightColorLogic, mqttDisconnectTime, log, last>>
    /\ ShutdownUnchanged

ShutdownSpecInit == Init /\ thermo = None

ShutdownNext ==
    \/ ShutdownLoopCommand \/ MainLoopTickRaises
    \/ ShutdownFirstSignal \/ ShutdownSecondSignal
    \/ ShutdownStep \/ ShutdownStepRaises \/ ShutdownAtExit

ShutdownSpec == ShutdownSpecInit /\ [][ShutdownNext]_vars

----------------------------------------------------------------------------
(* One Timer object with all its fields, driven by a caller that starts,   *)
(* stops and reads it in any order while the clock runs                    *)
(* (src/src/Timer.py, src/tests/unit/test_timer.py).  The timers of the    *)
(* heater and the pump above are the _start_time of this object.           *)

\* Last value of the clock in TimerSpec.
MaxTimerTime == 5

\* datetime.now() and time.time(): the wall clock at clock step t.
WallClock(t) == <<"wall", t>>

\* start() that restarts a running timer.
TimerObject_start_restarts(t) ==
    [t EXCEPT !.wall_start_time = Some(WallClock(now)), !.start_time = Some(now),
              !.isRunning = TRUE]

\* start(): returns at once when _start_time is set.
TimerObject_start(t) ==
    IF ~IsNone(t.start_time) THEN t
    ELSE [t EXCEPT !.wall_start_time = Some(WallClock(now)), !.start_time = Some(now),
                   !.isRunning = TRUE]

\* stop(): the pair <<wall stamp, elapsed seconds>> it returns.
TimerObject_stop_result(t) ==
    IF IsNone(t.start_time) THEN <<WallClock(now), 0>>
    ELSE <<Val(t.wall_start_time), (now - Val(t.start_time)) * SecondsPerStep>>

\* stop(): the fields it leaves (_wall_start_time stays).
TimerObject_stop(t) ==
    IF IsNone(t.start_time) THEN t
    ELSE [t EXCEPT !.start_time = None, !.isRunning = FALSE]

TimerObject_elapsedSeconds(t) ==
    IF IsNone(t.start_time) THEN 0 ELSE (now - Val(t.start_time)) * SecondsPerStep

TimerUnchanged ==
    UNCHANGED <<now, heater, pump, relay, thermo, log, tickpc, pending, mqttDisconnectTime,
                sdpc, race, light, lightColorLogic, shutdown>>

TimerStart ==
    /\ timer' = TimerObject_start(timer)
    /\ last' = Op("Timer_start", "caller", None, "none")
    /\ TimerUnchanged

TimerStop ==
    /\ timer' = TimerObject_stop(timer)
    /\ last' = Op("Timer_stop", "caller", None, TimerObject_stop_result(timer))
    /\ TimerUnchanged

TimerElapsedSeconds ==
    /\ timer' = timer
    /\ last' = Op("Timer_elapsedSeconds", "caller", None, TimerObject_elapsedSeconds(timer))
    /\ TimerUnchanged

TimerAdvance ==
    /\ now < MaxTimerTime
    /\ now' = now + 1
    /\ UNCHANGED <<heater, pump, relay, thermo, log, last, tickpc, pending,
                   mqttDisconnectTime, sdpc, race, light, lightColorLogic, shutdown, timer>>

TimerSpecInit == Init /\ thermo = None

TimerNext == TimerStart \/ TimerStop \/ TimerElapsedSeconds \/ TimerAdvance

TimerSpec == TimerSpecInit /\ [][TimerNext]_vars

----------------------------------------------------------------------------
(* Light.cycle() and its worker statement by statement, used as the tests  *)
(* of src/tests/unit/test_light.py use it: a caller sets the light ON or   *)
(* OFF, starts one cycle at a time and asks waitForCycle() at any moment   *)
(* (src/src/Light.py:51-126).                                              *)

\* Last value of the clock in LightSpec.
MaxCycleTime == 4

\* The count and delay arguments of cycle(), the delay in clock steps.
CycleCounts == {-1, 0, 1, 2}

CycleDelays == {0, 1, 2}

\* isCycling(): a cycle thread exists and is alive.
Light_isCycling(w) ==
    ~IsNone(w.light.cycle_thread) /\ Val(w.light.cycle_thread).pc # "dead"

\* cycle(count, delay): nothing for count <= 0; otherwise a new thread is
\* created and started, and the call returns.
Light_cycle(w, count, delay) ==
    IF count <= 0 THEN w
    ELSE Emit([w EXCEPT !.light.cycle_thread =
                   Some([pc |-> "lock", remaining |-> count, delay |-> delay, wake |-> now])],
              LogLine("Light: Started cycles in background"))

\* waitForCycle() that never looks at the thread.
Light_waitForCycle_unchecked(w) == Return(w, TRUE)

\* waitForCycle(timeout): join() of a thread that is alive runs into the
\* timeout here (a thread that ends during the join has ended before a later
\* call), so the call returns whether the thread is not alive.
Light_waitForCycle(w) == Return(w, ~Light_isCycling(w))

\* One statement of _cycle_sync() in the worker: take the cycle lock; then,
\* count times, cycleOne(): off(), sleep(delay), on(); then release the lock
\* and end.
Light_cycle_sync(w) ==
    LET t == Val(w.light.cycle_thread)
    IN  CASE t.pc = "lock" ->
               [w EXCEPT !.light.cycle_lock = TRUE, !.light.cycle_thread = Some([t EXCEPT !.pc = "off"])]
          [] t.pc = "off" ->
               [Light_off(w) EXCEPT !.light.cycle_thread =
                    Some([t EXCEPT !.pc = "on", !.wake = now + t.delay])]
          [] t.pc = "on" ->
               [Light_on(w) EXCEPT !.light.cycle_thread =
                    Some([t EXCEPT !.pc = IF t.remaining = 1 THEN "release" ELSE "off",
                                   !.remaining = t.remaining - 1])]
          [] t.pc = "release" ->
               Emit([w EXCEPT !.light.cycle_lock = FALSE,
                              !.light.cycle_thread = Some([t EXCEPT !.pc = "dead"])],
                    LogLine("Light: Completed cycles"))

LightUnchanged == UNCHANGED <<now, thermo, tickpc, pending, sdpc, race, shutdown, timer>>

\* on() or off() before the first cycle.
LightCallerSwitch ==
    /\ IsNone(light.cycle_thread)
    /\ \E data \in {"ON", "OFF"} :
          Commit(Light_setStateMessageHandler(World, data), "Light_" \o data, "caller", None)
    /\ LightUnchanged

\* cycle(count, delay) while no cycle is in progress.
LightCycle ==
    /\ ~Light_isCycling(World)
    /\ \E count \in CycleCounts, delay \in CycleDelays :
          Commit(Light_cycle(World, count, delay), "Light_cycle", "caller", count)
    /\ LightUnchanged

\* The worker's next statement; on() waits for the end of sleep(delay).
LightCycleWorker ==
    /\ Light_isCycling(World)
    /\ Val(light.cycle_thread).pc = "lock" => ~light.cycle_lock
    /\ Val(light.cycle_thread).pc = "on" => now >= Val(light.cycle_thread).wake
    /\ Commit(Light_cycle_sync(World), "Light_cycle_sync", "LightCycleThread", None)
    /\ LightUnchanged

LightWaitForCycle ==
    /\ Commit(Light_waitForCycle(World), "Light_waitForCycle", "caller", None)
    /\ LightUnchanged

LightAdvance ==
    /\ now < MaxCycleTime
    /\ now' = now + 1
    /\ UNCHANGED <<heater, pump, relay, thermo, log, last, tickpc, pending,
                   mqttDisconnectTime, sdpc, race, light, lightColorLogic, shutdown, timer>>

LightSpecInit == Init /\ thermo = None

LightNext ==
    \/ LightCallerSwitch \/ LightCycle \/ LightCycleWorker \/ LightWaitForCycle
    \/ LightAdvance

LightSpec == LightSpecInit /\ [][LightNext]_vars

----------------------------------------------------------------------------
(* The color driver's worker statement by statement, against the broker    *)
(* thread's light_set_color messages and the hardStop() of the main loop's *)
(* except clause (src/src/LightColorLogic.py:78-223).  A step of the       *)
(* worker runs from the end of one wait (queue.get or sleep) to the start  *)
(* of the next.                                                            *)

\* Color ids of the light_set_color payloads in ColorSpec.
ColorIds == {1, 2}

\* The statements at which the worker is inside a sleep().
SleepingAt == {"reset1", "reset2", "reset3", "reset4", "white", "pulse1", "pulse2"}

\* The worker holds a command it took from the queue.
HoldsCommand(c) == c.pc # "get"

\* A faulty end of a command that also resets interrupt_requested.
LightColorLogic_commandDone_clearsInterrupt(w) ==
    [w EXCEPT !.lightColorLogic.is_processing = FALSE,
              !.lightColorLogic.command = None,
              !.lightColorLogic.pc = "get",
              !.lightColorLogic.interrupt_requested = FALSE]

\* The command ends: back in task(), is_processing = False, task_done().
LightColorLogic_commandDone(w) ==
    [w EXCEPT !.lightColorLogic.is_processing = FALSE,
              !.lightColorLogic.command = None,
              !.lightColorLogic.pc = "get"]

\* __doSetColor from the check of the off time on (offLong: the light has
\* been off for more than 60 s): wait for the white light, or go on to the
\* loop of pulses, which checks keepRunning and the interrupt at its head.
LightColorLogic_doSetColor_pulses(w) ==
    IF w.lightColorLogic.currentColorId = Val(w.lightColorLogic.command)
       \/ ~w.lightColorLogic.keepRunning \/ w.lightColorLogic.interrupt_requested
    THEN LightColorLogic_commandDone(w)
    ELSE [Light_off(w) EXCEPT !.lightColorLogic.pc = "pulse1"]

LightColorLogic_doSetColor_offTime(w, offLong) ==
    IF w.light.state = "OFF" /\ offLong
    THEN [Light_on(w) EXCEPT !.lightColorLogic.pc = "white"]
    ELSE LightColorLogic_doSetColor_pulses(w)

\* The statements after the first sleep of a pulse: light.on() and the
\* second sleep.
LightColorLogic_pulse(w) == [Light_on(w) EXCEPT !.lightColorLogic.pc = "pulse2"]

\* One step of the worker in task().
LightColorLogic_task_step(w, offLong) ==
    LET c == w.lightColorLogic
        interrupted == c.interrupt_requested
    IN  CASE c.pc = "get" ->
               [w EXCEPT !.lightColorLogic.command = Some(Head(c.command_queue)),
                         !.lightColorLogic.command_queue = Tail(@),
                         !.lightColorLogic.pc = "check"]
          [] c.pc = "check" ->
               IF interrupted
               THEN Emit([w EXCEPT !.lightColorLogic.interrupt_requested = FALSE,
                                   !.lightColorLogic.command = None,
                                   !.lightColorLogic.pc = "get"],
                         LogLine("command skipped due to interrupt"))
               ELSE [w EXCEPT !.lightColorLogic.is_processing = TRUE,
                              !.lightColorLogic.pc = "dispatch"]
          [] c.pc = "dispatch" ->
               IF ~c.isLightPositionKnown
               THEN [Light_off(w) EXCEPT !.lightColorLogic.pc = "reset1"]
               ELSE LightColorLogic_doSetColor_offTime(w, offLong)
          [] c.pc = "reset1" ->
               IF interrupted THEN LightColorLogic_commandDone(w)
               ELSE [Light_on(w) EXCEPT !.lightColorLogic.pc = "reset2"]
          [] c.pc = "reset2" ->
               IF interrupted THEN LightColorLogic_commandDone(w)
               ELSE [Light_off(w) EXCEPT !.lightColorLogic.pc = "reset3"]
          [] c.pc = "reset3" ->
               IF interrupted THEN LightColorLogic_commandDone(w)
               ELSE [Light_on(w) EXCEPT !.lightColorLogic.isLightPositionKnown = TRUE,
                                        !.lightColorLogic.currentColorId = 0,
                                        !.lightColorLogic.pc = "reset4"]
          [] c.pc = "reset4" ->
               IF interrupted THEN LightColorLogic_commandDone(w)
               ELSE LightColorLogic_doSetColor_offTime(w, offLong)
          [] c.pc = "white" ->
               IF interrupted THEN LightColorLogic_commandDone(w)
               ELSE LightColorLogic_doSetColor_pulses(w)
          [] c.pc = "pulse1" -> LightColorLogic_pulse(w)
          [] c.pc = "pulse2" ->
               LightColorLogic_doSetColor_pulses(
                   [w EXCEPT !.lightColorLogic.currentColorId = (@ + 1) % colorCount])

ColorUnchanged == UNCHANGED <<now, thermo, tickpc, pending, sdpc, race, shutdown, timer>>

\* pipool/control/light_set_color on the broker thread.
ColorSetColorMessage ==
    /\ \E data \in {None} \cup {Some(id) : id \in ColorIds} :
          Commit(LightColorLogic_setColorMessageHandler(World, data),
                 "light_set_color", "broker", data)
    /\ ColorUnchanged

\* hardStop(), first statement: interrupt_requested = True.
ColorHardStopRequest ==
    /\ ~lightColorLogic.stopping
    /\ Commit(Emit([World EXCEPT !.lightColorLogic.interrupt_requested = TRUE,
                                 !.lightColorLogic.stopping = TRUE],
                   LogLine("LightColorLogic - hardStop called")),
              "LightColorLogic_hardStop", "tick", None)
    /\ ColorUnchanged

\* hardStop(), second statement: the queue is cleared under its mutex.
ColorHardStopClear ==
    /\ lightColorLogic.stopping
    /\ Commit([World EXCEPT !.lightColorLogic.command_queue = << >>,
                            !.lightColorLogic.stopping = FALSE],
              "LightColorLogic_hardStop_return", "tick", None)
    /\ ColorUnchanged

ColorWorker ==
    /\ lightColorLogic.keepRunning
    /\ lightColorLogic.pc = "get" => lightColorLogic.command_queue # << >>
    /\ \E offLong \in BOOLEAN :
          Commit(LightColorLogic_task_step(World, offLong), "LightColorLogic_task",
                 "worker", None)
    /\ ColorUnchanged

ColorSpecInit == Init /\ thermo = None

ColorNext ==
    \/ ColorSetColorMessage \/ ColorHardStopRequest \/ ColorHardStopClear \/ ColorWorker

ColorSpec == ColorSpecInit /\ [][ColorNext]_vars

----------------------------------------------------------------------------
(* The pump's mutators called from two threads (src/src/Pump.py, lines     *)
(* 48-160): the broker thread runs setRunForXMinutesAndStop() or           *)
(* setModeOff() (Automations.setPumpRunForXMinutesMessageHandler), the     *)
(* main loop runs runOneLoop().  Only on() and off() take _state_lock; the *)
(* other methods run one statement at a time with no lock.  race.pc is    *)
(* each thread's position, race.raised whether runOneLoop() raised.        *)

\* Lines 125-130 of setRunForXMinutesAndStop(): event, timer restarted.
Pump_setRunForXMinutesAndStop_timer(w) ==
    Pump_startPumpTimer(Pump_stopPumpTimer(Emit(w, Opaque("pump_run_for_x_minutes"))))

\* Lines 136-140 of setModeOff(): the event when the mode changes, the mode.
Pump_setModeOff_mode(w) ==
    LET w1 == IF w.pump.mode # "OFF" THEN Emit(w, Opaque("pump_mode_off")) ELSE w
    IN  [w1 EXCEPT !.pump.mode = "OFF"]

PumpRaceUnchanged ==
    UNCHANGED <<thermo, tickpc, pending, sdpc, shutdown, timer>>

PumpRaceAt(th, pc) == [race EXCEPT !.pc[th] = pc]

\* The broker thread receives a timed-run message with mode ON (line 104 of
\* Automations.py) or with another mode (line 107).
PumpRaceBrokerCall ==
    /\ race.pc["broker"] = "idle"
    /\ \E m \in {"setRunForXMinutesAndStop", "setModeOff"} :
          /\ race' = PumpRaceAt("broker", m)
          /\ Commit(World, "Pump_" \o m, "broker", None)
    /\ UNCHANGED now /\ PumpRaceUnchanged

\* setRunForXMinutesAndStop(), statement by statement, up to its on().
PumpRaceSetRunForXMinutes ==
    /\ \E durationInMinutes \in PayloadMinutes :
          \/ /\ race.pc["broker"] = "setRunForXMinutesAndStop"
             /\ race' = PumpRaceAt("broker", "runForXMinutes")
             /\ Commit(Pump_setRunForXMinutesAndStop_timer(World),
                       "Pump_setRunForXMinutesAndStop", "broker", None)
          \/ /\ race.pc["broker"] = "runForXMinutes"
             /\ race' = PumpRaceAt("broker", "mode")
             /\ Commit([World EXCEPT !.pump.runForXMinutes = Some(durationInMinutes)],
                       "Pump_setRunForXMinutesAndStop", "broker", None)
          \/ /\ race.pc["broker"] = "mode"
             /\ race' = PumpRaceAt("broker", "on")
             /\ Commit([World EXCEPT !.pump.mode = "REACH_TIME_AND_STOP"],
                       "Pump_setRunForXMinutesAndStop", "broker", None)
    /\ UNCHANGED now /\ PumpRaceUnchanged

\* setModeOff() called with no lock held, statement by statement, up to
\* its off(): by the broker thread, or by runOneLoop() at line 153.
PumpRaceSetModeOff ==
    /\ \E th \in PumpThreads :
          \/ /\ race.pc[th] = "setModeOff"
             /\ race' = PumpRaceAt(th, "runForXMinutesNone")
             /\ Commit(Pump_setModeOff_mode(World), "Pump_setModeOff", th, None)
          \/ /\ race.pc[th] = "runForXMinutesNone"
             /\ race' = PumpRaceAt(th, "off")
             /\ Commit([World EXCEPT !.pump.runForXMinutes = None],
                       "Pump_setModeOff", th, None)
    /\ UNCHANGED now /\ PumpRaceUnchanged

\* on() or off(): `with self._state_lock:` and the body under the lock.
PumpRaceLocked ==
    /\ \E th \in PumpThreads :
          /\ race.pc[th] \in {"on", "off"} /\ race.stateLock = "free"
          /\ race' = [PumpRaceAt(th, "release") EXCEPT !.stateLock = th]
          /\ IF race.pc[th] = "on"
             THEN Commit(Pump_on(World), "Pump_on", th, None)
             ELSE Commit(Pump_off(World), "Pump_off", th, None)
    /\ UNCHANGED now /\ PumpRaceUnchanged

\* The end of the `with` block; the method that called on()/off() returns.
PumpRaceRelease ==
    /\ \E th \in PumpThreads :
          /\ race.pc[th] = "release" /\ race.stateLock = th
          /\ race' = [PumpRaceAt(th, "idle") EXCEPT !.stateLock = "free"]
          /\ Commit(World, "return", th, None)
    /\ UNCHANGED now /\ PumpRaceUnchanged

\* The main loop calls runOneLoop().
PumpRaceTickCall ==
    /\ race.pc["tick"] = "idle" /\ ~race.raised
    /\ race' = PumpRaceAt("tick", "line152")
    /\ Commit(World, "Pump_runOneLoop", "tick", None)
    /\ UNCHANGED now /\ PumpRaceUnchanged

\* runOneLoop(), statement by statement: the test of line 152, the test of
\* line 156, the comparison of line 157, which raises TypeError when
\* runForXMinutes is None.
PumpRaceRunOneLoop ==
    /\ \/ /\ race.pc["tick"] = "line152"
          /\ race' = PumpRaceAt("tick", IF pump.state = "OFF" /\ pump.mode # "OFF"
                                         THEN "setModeOff" ELSE "line156")
       \/ /\ race.pc["tick"] = "line156"
          /\ race' = PumpRaceAt("tick", IF pump.mode = "REACH_TIME_AND_STOP"
                                         THEN "line157" ELSE "idle")
       \/ /\ race.pc["tick"] = "line157"
          /\ race' = IF IsNone(pump.runForXMinutes)
                     THEN [PumpRaceAt("tick", "idle") EXCEPT !.raised = TRUE]
                     ELSE PumpRaceAt("tick",
                            IF Timer_elapsedSeconds(pump.timer) > 60 * Val(pump.runForXMinutes)
                            THEN "off" ELSE "idle")
    /\ Commit(World, "Pump_runOneLoop", "tick", None)
    /\ UNCHANGED now /\ PumpRaceUnchanged

PumpRaceAdvance ==
    /\ now < MaxTime
    /\ now' = now + 1
    /\ UNCHANGED <<heater, pump, relay, thermo, log, last, tickpc, pending,
                   mqttDisconnectTime, sdpc, race, light, lightColorLogic, shutdown, timer>>

PumpRaceInit == Init /\ thermo = None

PumpRaceNext ==
    \/ PumpRaceBrokerCall \/ PumpRaceSetRunForXMinutes \/ PumpRaceSetModeOff
    \/ PumpRaceLocked \/ PumpRaceRelease
    \/ PumpRaceTickCall \/ PumpRaceRunOneLoop \/ PumpRaceAdvance

PumpRaceSpec == PumpRaceInit /\ [][PumpRaceNext]_vars

----------------------------------------------------------------------------
(* Heater.on() against Heater.off()/hardStop() (src/src/Heater.py, lines   *)
(* 108-181), one statement at a time.  The broker thread calls on() (the   *)
(* heater_state handler, the delayed start); the main loop calls off() or  *)
(* hardStop() (runOneLoop, the watchdog).  on() holds both locks from its  *)
(* call to its return; off() and hardStop() take none.                     *)

\* Lines 173-175 of off(), 144-146 of on(): the event of a heater that is
\* not OFF.
Heater_stateEvent(w, to) ==
    IF w.heater.state # "OFF"
    THEN Emit(w, StateEvent("heater_state", w.heater.state, to))
    ELSE w

\* The broker thread has a running pump to heat behind.
HeaterRacePumpOn ==
    /\ pump.state = "OFF" /\ race.pc["broker"] = "idle"
    /\ Commit(Pump_on(World), "Pump_on", "broker", None)
    /\ UNCHANGED <<now, race>> /\ PumpRaceUnchanged

\* on() is called and enters both `with` blocks.
HeaterRaceOnCall ==
    /\ race.pc["broker"] = "idle"
    /\ race.activationLock = "free" /\ Pump_stateLockAcquirable(race, "H")
    /\ race' = [PumpRaceAt("broker", "pumpCheck") EXCEPT
                   !.activationLock = "H", !.stateLock = "H"]
    /\ Commit(World, "Heater_on", "broker", None)
    /\ UNCHANGED now /\ PumpRaceUnchanged

\* The statements of on() under the locks: the pump check and its failure
\* branch (138-143), the event (144-146), the relay (150), the state (151),
\* the timer (152); the return leaves both `with` blocks.
HeaterRaceOn ==
    /\ \/ /\ race.pc["broker"] = "pumpCheck"
          /\ IF Heater_pumpVerified(World)
             THEN /\ race' = PumpRaceAt("broker", "event")
                  /\ Commit(World, "Heater_on", "broker", None)
             ELSE /\ race' = PumpRaceAt("broker", "return")
                  /\ Commit(Heater_blocked(World), "Heater_on", "broker", None)
       \/ /\ race.pc["broker"] = "event"
          /\ race' = PumpRaceAt("broker", "portOn")
          /\ Commit(Heater_stateEvent(World, "ON"), "Heater_on", "broker", None)
       \/ /\ race.pc["broker"] = "portOn"
          /\ race' = PumpRaceAt("broker", "state")
          /\ Commit(portOn(World, "heater"), "Heater_on", "broker", None)
       \/ /\ race.pc["broker"] = "state"
          /\ race' = PumpRaceAt("broker", "timer")
          /\ Commit([World EXCEPT !.heater.state = "ON"], "Heater_on", "broker", None)
       \/ /\ race.pc["broker"] = "timer"
          /\ race' = PumpRaceAt("broker", "return")
          /\ Commit(Return([World EXCEPT !.heater.timer = Timer_start(@)], "True"),
                    "Heater_on", "broker", None)
       \/ /\ race.pc["broker"] = "return"
          /\ race' = [PumpRaceAt("broker", "idle") EXCEPT
                         !.activationLock = "free", !.stateLock = "free"]
          /\ Commit(World, "return", "broker", None)
    /\ UNCHANGED now /\ PumpRaceUnchanged

\* The main loop calls off() or hardStop(), which starts with setModeOff().
HeaterRaceStopCall ==
    /\ race.pc["tick"] = "idle"
    /\ \/ /\ race' = PumpRaceAt("tick", "event")
          /\ Commit(World, "Heater_off", "tick", None)
       \/ /\ race' = PumpRaceAt("tick", "event")
          /\ Commit(Heater_setModeOff(World), "Heater_hardStop", "tick", None)
    /\ UNCHANGED now /\ PumpRaceUnchanged

\* The statements of off(): the event (173-175), the relay (177), the state
\* (178), the mode (179), the timer (180-181).
HeaterRaceOff ==
    /\ \/ /\ race.pc["tick"] = "event"
          /\ race' = PumpRaceAt("tick", "portOff")
          /\ Commit(Heater_stateEvent(World, "OFF"), "Heater_off", "tick", None)
       \/ /\ race.pc["tick"] = "portOff"
          /\ race' = PumpRaceAt("tick", "state")
          /\ Commit(portOff(World, "heater"), "Heater_off", "tick", None)
       \/ /\ race.pc["tick"] = "state"
          /\ race' = PumpRaceAt("tick", "mode")
          /\ Commit([World EXCEPT !.heater.state = "OFF"], "Heater_off", "tick", None)
       \/ /\ race.pc["tick"] = "mode"
          /\ race' = PumpRaceAt("tick", "timer")
          /\ Commit(Heater_setModeOff(World), "Heater_off", "tick", None)
       \/ /\ race.pc["tick"] = "timer"
          /\ race' = PumpRaceAt("tick", "idle")
          /\ Commit([World EXCEPT !.heater.timer = Timer_stop(@)],
                    "Heater_off", "tick", None)
    /\ UNCHANGED now /\ PumpRaceUnchanged

HeaterRaceNext ==
    \/ HeaterRacePumpOn \/ HeaterRaceOnCall \/ HeaterRaceOn
    \/ HeaterRaceStopCall \/ HeaterRaceOff \/ PumpRaceAdvance

HeaterRaceSpec == PumpRaceInit /\ [][HeaterRaceNext]_vars

----------------------------------------------------------------------------
Next ==
    \/ TickSetInputTemp \/ TickHeaterRunOneLoop
    \/ TickPumpRunOneLoop \/ TickWatchdogCheck \/ TickSleep
    \/ BrokerPumpState \/ BrokerPumpOn \/ BrokerPumpOff \/ BrokerHeaterState
    \/ BrokerHeaterReachAndStop \/ BrokerPumpRunForXMinutes
    \/ TimerCallback
    \/ Advance
    \/ ShutdownHeater \/ ShutdownPump \/ ShutdownServices \/ ShutdownGpioCleanup

Spec == Init /\ [][Next]_vars

----------------------------------------------------------------------------
(* Properties.  A step "is a call of m" when it records m as the most      *)
(* recent operation; the clock steps leave that record alone.              *)

Called(m) == last'.op = m /\ now' = now

HeaterIsOff(h, r) == h.state = "OFF" /\ h.mode = "OFF" /\ ~r.heater

PumpIsOff(p, r) == p.state = "OFF" /\ p.mode = "OFF" /\ ~r.pump

HeaterTurnedOff == StateEvent("heater_state", "ON", "OFF")

\* runOneLoop entered in this state passes its mode branches with the
\* heater left ON: no mode, or a target above the input temperature.
ModeKeepsHeating == heater.mode = "OFF" \/ heater.inputTemp < heater.targetTemp

TickRunsHeater == tickpc = "heater" /\ tickpc' = "pump"

\* In a state that follows the tick's setInputTemp at once: the tick started
\* with the heater ON and the pump OFF.
TickStartedWithHeaterOnPumpOff ==
    /\ tickpc = "heater" /\ last.op = "Heater_setInputTemp"
    /\ pump.state = "OFF"
    /\ heater.state = "ON" \/ Logged(log, HeaterTurnedOff)

PumpLossRecorded(l) == Logged(l, Opaque("heater_emergency_pump_stopped"))

\* C4 as stated: a tick that starts with the heater ON and the pump OFF has
\* the heater OFF, mode OFF, relay inactive and the event
\* heater_emergency_pump_stopped recorded when its Heater.runOneLoop returns.
C4_TickStartedWithoutPumpRecordsEvent ==
    [][(TickRunsHeater /\ TickStartedWithHeaterOnPumpOff)
         => HeaterIsOff(heater', relay') /\ PumpLossRecorded(log')]_vars

\* C4, amended: Heater.runOneLoop() of a tick entered with the heater ON and
\* the pump not ON returns with the heater OFF, mode OFF, relay inactive and
\* heater_emergency_pump_stopped recorded; a tick that starts with the heater
\* ON and the pump OFF has the heater OFF when its runOneLoop returns, the
\* event being recorded unless the tick's reading was invalid and
\* setInputTemp had stopped the heater before; no runOneLoop entered with the
\* pump not ON returns with the heater ON.
C4_PumpLossStopsHeaterInTick ==
    [][TickRunsHeater
         => /\ (heater.state = "ON" /\ pump.state # "ON")
                 => HeaterIsOff(heater', relay') /\ PumpLossRecorded(log')
            /\ TickStartedWithHeaterOnPumpOff
                 => /\ HeaterIsOff(heater', relay')
                    /\ \/ PumpLossRecorded(log')
                       \/ Logged(log, LogLine("Invalid input temperature"))
            /\ pump.state # "ON" => heater'.state = "OFF" /\ ~relay'.heater]_vars

\* The tick's runOneLoop stopped a heater whose pump had been stopped.
C4_Witness ==
    /\ last.op = "Heater_runOneLoop" /\ last.by = "tick"
    /\ PumpLossRecorded(log) /\ Logged(log, HeaterTurnedOff)
    /\ HeaterIsOff(heater, relay) /\ pump.state = "OFF"

\* C6 as stated: when the read of the inlet sensor fails during a tick, what
\* the tick pushes into the heater hard-stops a heater that was ON, as a
\* pushed None does: the heater does not continue on the last good reading.
C6_FailedReadStopsHeater ==
    [][(tickpc = "setInputTemp" /\ tickpc' = "heater" /\ last'.ret = "read_failed"
            /\ heater.state = "ON")
         => HeaterIsOff(heater', relay')]_vars

\* C2: in every interleaving of Heater.on() with Pump.on(), Pump.off() and
\* Pump.hardStop() on another thread, the pump is ON before and after the
\* step of on() that energizes the heater relay; the pump's state does not
\* change between on()'s pump check and the release of the pump's lock; and
\* on() returns either True, with the heater ON, its relay active and the
\* pump ON, or False, with the heater as it was at the call and the relay
\* not energized by the call.
C2_AtomicPumpCheckAndRelayWrite ==
    [][/\ (~relay.heater /\ relay'.heater) \/ (race.hpc = "activate" /\ race'.hpc = "relS")
            => pump.state = "ON" /\ pump'.state = "ON" /\ race.checked
       /\ race.checked => pump' = pump
       /\ (race.hpc = "relS" /\ race'.hpc = "relA")
            => \/ /\ race.hret = "True"
                  /\ heater.state = "ON" /\ relay.heater /\ pump.state = "ON"
               \/ /\ race.hret = "False"
                  /\ heater.state = race.h0
                  /\ race.h0 = "OFF" => ~relay.heater]_vars

\* on() has seen the pump ON and is about to energize the relay while the
\* pump thread waits for the lock to turn the pump off.
C2_Witness ==
    /\ race.hpc = "activate" /\ race.checked /\ heater.state = "OFF"
    /\ race.ppc = "acq" /\ race.pop = "off" /\ pump.state = "ON"

\* C3: Heater.on() called while the pump is not ON returns False, records
\* the event heater_blocked_no_pump, writes no relay and leaves every field
\* of the heater (state, mode, timer) as it was before the call.
C3_OnWithoutPumpIsBlocked ==
    [][(Called("Heater_on") /\ pump.state # "ON")
         => /\ last'.ret = "False"
            /\ Logged(log', Opaque("heater_blocked_no_pump"))
            /\ relay' = relay
            /\ heater' = heater]_vars

\* on() was refused while the heater was in a mode and the pump was OFF.
C3_Witness ==
    /\ last.op = "Heater_on" /\ last.ret = "False"
    /\ pump.state = "OFF" /\ heater.mode = "HOLD"

\* C5: Heater.setInputTemp(t) with t None or t <= 0 returns with the heater
\* OFF, its mode OFF and its relay inactive, whatever the state before, and
\* leaves inputTemp and lastInputTempUpdate alone; with a valid t it stores
\* t, sets lastInputTempUpdate to the clock and changes neither state nor
\* mode.
C5_SetInputTempContract ==
    [][Called("Heater_setInputTemp")
         => IF IsNone(last'.arg) \/ Val(last'.arg) <= 0
            THEN /\ HeaterIsOff(heater', relay')
                 /\ heater'.inputTemp = heater.inputTemp
                 /\ heater'.lastInputTempUpdate = heater.lastInputTempUpdate
            ELSE /\ heater'.inputTemp = Val(last'.arg)
                 /\ heater'.lastInputTempUpdate = now
                 /\ heater'.state = heater.state
                 /\ heater'.mode = heater.mode
                 /\ relay' = relay]_vars

\* An invalid reading of zero stopped a heater that was ON in a mode.
C5_Witness ==
    /\ last.op = "Heater_setInputTemp" /\ last.arg = Some(0)
    /\ Logged(log, HeaterTurnedOff) /\ Logged(log, Opaque("heater_mode_off"))

\* C7: when hardStop() of an actuator has returned, that actuator's state is
\* OFF, its mode is OFF and its relay is inactive, whatever sequence of
\* calls came before.
C7_HardStopLeavesOff ==
    /\ last.op = "Heater_hardStop" => HeaterIsOff(heater, relay)
    /\ last.op = "Pump_hardStop" => PumpIsOff(pump, relay)

\* hardStop() stopped a heater that was ON in a mode.
C7_Witness ==
    /\ last.op = "Heater_hardStop"
    /\ Logged(log, HeaterTurnedOff) /\ Logged(log, Opaque("heater_mode_off"))

\* C8: Heater.runOneLoop() entered with lastInputTempUpdate > 0 and a reading
\* older than 60 s returns with the heater OFF, mode OFF and relay inactive;
\* at an age of exactly 60 s it reports no stale sensor and a heater that is
\* ON with the pump ON, within its runtime and below the maximum temperature
\* stays ON.
C8_StaleSensorStops ==
    [][(Called("Heater_runOneLoop") /\ heater.lastInputTempUpdate > 0)
         => LET age == (now - heater.lastInputTempUpdate) * SecondsPerStep
            IN  /\ age > SENSOR_STALE_SECONDS => HeaterIsOff(heater', relay')
                /\ age = SENSOR_STALE_SECONDS
                     => /\ ~Logged(log', LogLine("Input sensor stale"))
                        /\ (/\ heater.state = "ON" /\ pump.state = "ON"
                            /\ Timer_elapsedSeconds(heater.timer) <= maxRuntimeSeconds
                            /\ heater.inputTemp < maxWaterTemp
                            /\ ModeKeepsHeating)
                             => heater'.state = "ON" /\ relay'.heater]_vars

\* runOneLoop() stopped a running heater for a stale sensor.
C8_Witness ==
    /\ last.op = "Heater_runOneLoop"
    /\ Logged(log, LogLine("Input sensor stale")) /\ Logged(log, HeaterTurnedOff)

\* C9: Heater.runOneLoop() entered with the heater ON and the pump ON: with
\* the timer's elapsed time above maxRuntimeSeconds it returns with the
\* heater OFF, mode OFF, relay inactive and heater_max_runtime_exceeded
\* recorded; with the elapsed time equal to maxRuntimeSeconds it records no
\* such event and a heater with a fresh reading below the maximum
\* temperature stays ON.  Entered with the heater OFF it records no such
\* event.
C9_MaxRuntimeStops ==
    [][Called("Heater_runOneLoop")
         => LET elapsed == Timer_elapsedSeconds(heater.timer)
                exceeded == Logged(log', Opaque("heater_max_runtime_exceeded"))
                age == (now - heater.lastInputTempUpdate) * SecondsPerStep
            IN  /\ (heater.state = "ON" /\ pump.state = "ON" /\ elapsed > maxRuntimeSeconds)
                     => HeaterIsOff(heater', relay') /\ exceeded
                /\ (heater.state = "ON" /\ pump.state = "ON" /\ elapsed = maxRuntimeSeconds)
                     => /\ ~exceeded
                        /\ (/\ heater.lastInputTempUpdate > 0 => age <= SENSOR_STALE_SECONDS
                            /\ heater.inputTemp < maxWaterTemp
                            /\ ModeKeepsHeating)
                             => heater'.state = "ON" /\ relay'.heater
                /\ heater.state = "OFF" => ~exceeded /\ heater'.state = "OFF"]_vars

\* runOneLoop() stopped a heater that had run beyond the limit.
C9_Witness ==
    /\ last.op = "Heater_runOneLoop"
    /\ Logged(log, Opaque("heater_max_runtime_exceeded")) /\ Logged(log, HeaterTurnedOff)

\* C10: Heater.runOneLoop() entered with the heater ON and inputTemp >=
\* maxWaterTemp (equality included) returns with the heater OFF and its relay
\* inactive, whatever the mode and the target temperature.
C10_OverTempStops ==
    [][(Called("Heater_runOneLoop") /\ heater.state = "ON"
            /\ heater.inputTemp >= maxWaterTemp)
         => heater'.state = "OFF" /\ ~relay'.heater]_vars

\* runOneLoop() turned a heater off at exactly the maximum temperature: the
\* plain off() of the temperature check, with a target still above the input.
C10_Witness ==
    /\ last.op = "Heater_runOneLoop"
    /\ heater.inputTemp = maxWaterTemp /\ heater.targetTemp > heater.inputTemp
    /\ log = <<HeaterTurnedOff, Opaque("heater_mode_off")>>

----------------------------------------------------------------------------
(* Temperature and freshness of the reading under a running heater.        *)

\* A step that returns from a command energizing the heater: the broker's
\* heater_state ON or the delayed automation callback.
HeaterCommandReturns == Called("Heater_ON") \/ Called("startHeaterAfterDelay")

\* The last valid reading is below the limit and at most 60 s old.
ReadingBelowLimitAndFresh(h) ==
    /\ h.inputTemp < maxWaterTemp
    /\ h.lastInputTempUpdate > 0
    /\ (now - h.lastInputTempUpdate) * SecondsPerStep <= SENSOR_STALE_SECONDS

----------------------------------------------------------------------------
(* The heat-to-T automation.                                               *)

\* A heat-to-T payload with mode ON and a target in 1..MAX_TARGET_TEMP above
\* the heater's input temperature.
ValidHeatCommand(payload) ==
    /\ payload.json /\ payload.mode = "ON"
    /\ Automations_targetAccepted(payload)
    /\ heater.inputTemp < Val(payload.targetTemp)

----------------------------------------------------------------------------
(* Payload validation of the composite-command handlers.                   *)

\* The step is a call of the handler registered as op whose outcome is w.
HandlerStep(op, w) ==
    /\ Called(op) /\ last'.ret = w.ret
    /\ heater' = w.heater /\ pump' = w.pump /\ relay' = w.relay

\* The step changes no pump or heater state, mode or relay, schedules no
\* callback and does not raise.
CommandDropped ==
    /\ heater' = heater /\ pump' = pump /\ relay' = relay
    /\ pending' = pending /\ last'.ret # "raised"

\* Not valid JSON, no mode, an unrecognised mode, or mode ON with a target
\* that is no integer in 1..MAX_TARGET_TEMP.
InvalidHeaterPayload(payload) ==
    \/ ~payload.json
    \/ payload.mode \notin {"ON", "OFF"}
    \/ /\ payload.mode = "ON"
       /\ \/ IsNone(payload.targetTemp)
          \/ Val(payload.targetTemp) \notin 1..MAX_TARGET_TEMP

\* Not valid JSON, no mode, an unrecognised mode, or mode ON without an
\* integer duration.
InvalidPumpPayload(payload) ==
    \/ ~payload.json
    \/ payload.mode \notin {"ON", "OFF"}
    \/ payload.mode = "ON" /\ IsNone(payload.durationInMinutes)

\* The heater half of C13: heater_reach_and_stop drops invalid payloads and
\* accepts targets in 1..MAX_TARGET_TEMP.
HeaterPayloadsValidated ==
    \A payload \in HeaterPayloads :
       HandlerStep("heater_reach_and_stop",
                   Automations_setHeaterReachAndStopMessageHandler(World, payload))
         => /\ InvalidHeaterPayload(payload) => CommandDropped
            /\ (~InvalidHeaterPayload(payload) /\ payload.mode = "ON")
                 => last'.ret \in {"scheduled", "not_needed"}

\* The pump half of C13: pump_run_for_x_minutes drops invalid payloads.
PumpPayloadsValidated ==
    \A payload \in PumpPayloads :
       (/\ InvalidPumpPayload(payload)
        /\ HandlerStep("pump_run_for_x_minutes",
                       Automations_setPumpRunForXMinutesMessageHandler(World, payload)))
         => CommandDropped

\* C13: for both composite-command handlers a payload that is not valid
\* JSON, lacks a required field, carries an unrecognised mode or carries an
\* out-of-range or non-integer value changes no pump or heater state, mode
\* or relay, schedules no callback, and the handler returns without raising;
\* heater targets 1..45 are accepted.
C13_InvalidPayloadsAreDropped ==
    [][HeaterPayloadsValidated /\ PumpPayloadsValidated]_vars

----------------------------------------------------------------------------
(* The heating modes in Heater.runOneLoop.                                 *)

\* No safety check of runOneLoop trips in this state: the pump is ON, the
\* run time is within maxRuntimeSeconds, the reading is not stale and it is
\* below maxWaterTemp.
NoSafetyLimitTripped ==
    /\ pump.state = "ON"
    /\ Timer_elapsedSeconds(heater.timer) <= maxRuntimeSeconds
    /\ heater.lastInputTempUpdate > 0
         => (now - heater.lastInputTempUpdate) * SecondsPerStep <= SENSOR_STALE_SECONDS
    /\ heater.inputTemp < maxWaterTemp

\* C14: Heater.runOneLoop() entered with the heater ON in mode
\* REACH_AND_STOP, the pump ON and no safety limit tripped: with input_temp <
\* target it leaves the heater ON, its relay active and mode and target as
\* they were; with input_temp >= target it leaves the heater OFF, mode OFF,
\* relay inactive and records that the target was reached.  Entered with the
\* heater OFF it leaves the heater OFF, mode OFF: no tick re-energizes it.
C14_ReachAndStop ==
    [][Called("Heater_runOneLoop")
         => /\ (/\ heater.state = "ON" /\ heater.mode = "REACH_AND_STOP"
                /\ NoSafetyLimitTripped)
                 => /\ heater.inputTemp < heater.targetTemp
                         => /\ heater'.state = "ON" /\ relay'.heater
                            /\ heater'.mode = "REACH_AND_STOP"
                            /\ heater'.targetTemp = heater.targetTemp
                    /\ heater.inputTemp >= heater.targetTemp
                         => /\ HeaterIsOff(heater', relay')
                            /\ Logged(log', Opaque("heater_mode_reach_and_stop_reached"))
            /\ heater.state = "OFF" => HeaterIsOff(heater', relay')]_vars

\* runOneLoop() stopped a heater in mode REACH_AND_STOP whose reading had
\* reached the target, below the maximum water temperature.
C14_Witness ==
    /\ last.op = "Heater_runOneLoop"
    /\ Logged(log, Opaque("heater_mode_reach_and_stop_reached"))
    /\ Logged(log, HeaterTurnedOff)
    /\ HeaterIsOff(heater, relay) /\ pump.state = "ON"
    /\ heater.inputTemp = heater.targetTemp /\ heater.inputTemp < maxWaterTemp

\* C15 as stated: in mode HOLD, Heater.runOneLoop() entered with the heater
\* ON and input_temp >= target turns the heater OFF while the mode stays
\* HOLD, and entered with the heater OFF in mode HOLD, the pump ON, no safety
\* limit tripped and input_temp < target it turns the heater ON again.
C15_HoldCyclesAroundTarget ==
    [][Called("Heater_runOneLoop")
         => /\ (/\ heater.state = "ON" /\ heater.mode = "HOLD"
                /\ NoSafetyLimitTripped /\ heater.inputTemp >= heater.targetTemp)
                 => /\ heater'.state = "OFF" /\ ~relay'.heater
                    /\ heater'.mode = "HOLD"
            /\ (/\ heater.state = "OFF" /\ heater.mode = "HOLD"
                /\ NoSafetyLimitTripped /\ heater.inputTemp < heater.targetTemp)
                 => heater'.state = "ON" /\ relay'.heater]_vars

----------------------------------------------------------------------------
(* The watchdog.                                                           *)

\* The step is a call of Watchdog.check() in which pinger.isConnected()
\* answered p and messageBus.isConnected() answered b.
WatchdogChecks(p, b) == Called("Watchdog_check") /\ last'.arg = <<p, b>>

\* Number of events e in the log l.
Count(l, e) == Cardinality({i \in 1..Len(l) : l[i] = e})

WatchdogHeaterHardStops(l) ==
    Count(l, Opaque("watchdog_heater_emergency_stop"))
    + Count(l, Opaque("watchdog_network_loss"))
    + Count(l, Opaque("watchdog_mqtt_heater_stop"))
    + Count(l, Opaque("watchdog_mqtt_extended_outage"))

\* Calls of pump.hardStop() and of lightColorLogic.hardStop() made by one
\* operation: both methods write a line at every call.
PumpHardStops(l) == Count(l, Opaque("pump_hard_stop"))

ColorDriverHardStops(l) == Count(l, LogLine("LightColorLogic - hardStop called"))

OutageSeconds ==
    IF IsNone(mqttDisconnectTime) THEN 0
    ELSE (now - Val(mqttDisconnectTime)) * SecondsPerStep

\* C19: every check() that finds the broker not connected returns with the
\* heater OFF, relay inactive, and has attempted a reconnect; while the
\* outage lasts at most 300 s it leaves the pump and its relay as they were
\* and records no extended outage; when the outage exceeds 300 s it
\* hard-stops the pump once, leaves it OFF with its relay inactive and
\* records watchdog_mqtt_extended_outage.
C19_BrokerOutageEscalation ==
    [][(Called("Watchdog_check") /\ last'.arg[2] = FALSE)
         => /\ HeaterIsOff(heater', relay')
            /\ Count(log', LogLine("MQTT connect attempt")) = 1
            /\ (heater.state = "ON" /\ pump.state = "ON" /\ last'.arg[1] = TRUE)
                 => Logged(log', Opaque("watchdog_mqtt_heater_stop"))
            /\ OutageSeconds <= MQTT_OUTAGE_SECONDS
                 => /\ pump' = pump /\ relay'.pump = relay.pump
                    /\ PumpHardStops(log') = 0
                    /\ ~Logged(log', Opaque("watchdog_mqtt_extended_outage"))
            /\ OutageSeconds > MQTT_OUTAGE_SECONDS
                 => /\ PumpIsOff(pump', relay')
                    /\ PumpHardStops(log') = 1
                    /\ Count(log', Opaque("watchdog_mqtt_extended_outage")) = 1]_vars

\* A check() more than 300 s into a broker outage stopped a running pump.
C19_Witness ==
    /\ last.op = "Watchdog_check" /\ last.arg[2] = FALSE
    /\ Logged(log, Opaque("watchdog_mqtt_extended_outage"))
    /\ Logged(log, StateEvent("pump_state", "ON", "OFF"))
    /\ PumpIsOff(pump, relay) /\ HeaterIsOff(heater, relay)
    /\ (now - Val(mqttDisconnectTime)) * SecondsPerStep > MQTT_OUTAGE_SECONDS

\* C20: the disconnect time stamp is set by the first check() of an outage
\* (a check that finds the broker not connected while no stamp is set), to
\* the time of that check, and every later check() of the outage keeps it;
\* only check() changes it; the first check() that finds the broker
\* connected again records watchdog_mqtt_reconnected once and clears the
\* stamp; a check() that finds the broker connected with no stamp set
\* records nothing; so a later outage is stamped at its own first check.
C20_DisconnectStampBookkeeping ==
    [][/\ (Called("Watchdog_check") /\ last'.arg[2] = FALSE)
           => /\ mqttDisconnectTime' = IF IsNone(mqttDisconnectTime)
                                       THEN Some(now) ELSE mqttDisconnectTime
              /\ Logged(log', LogLine("MQTT disconnection detected"))
                   <=> IsNone(mqttDisconnectTime)
              /\ ~Logged(log', Opaque("watchdog_mqtt_reconnected"))
       /\ (Called("Watchdog_check") /\ last'.arg[2] = TRUE)
           => /\ IsNone(mqttDisconnectTime')
              /\ Count(log', Opaque("watchdog_mqtt_reconnected"))
                   = IF IsNone(mqttDisconnectTime) THEN 0 ELSE 1
              /\ ~Logged(log', LogLine("MQTT connect attempt"))
       /\ ~Called("Watchdog_check") => mqttDisconnectTime' = mqttDisconnectTime
       /\ ~IsNone(mqttDisconnectTime) => Val(mqttDisconnectTime) <= now]_vars

\* The first check() that finds the broker connected again, later than the
\* start of the run, recorded the reconnect and cleared the stamp.
C20_Witness ==
    /\ last.op = "Watchdog_check" /\ last.arg[2] = TRUE /\ now > 1
    /\ Count(log, Opaque("watchdog_mqtt_reconnected")) = 1
    /\ IsNone(mqttDisconnectTime)

----------------------------------------------------------------------------
(* No automatic resumption of heating.                                     *)

----------------------------------------------------------------------------
(* Shutdown.                                                               *)

\* The handler has made its last call in a run with one signal only.
SingleSignalRunOver ==
    shutdown.signals = 1 /\ shutdown.pc \in {"atexit", "exited"}

\* The calls made so far are calls of the handler in program order, none
\* twice.
AttemptedInOrder ==
    \A i, j \in DOMAIN shutdown.attempted :
        i < j => ShutdownIndex(shutdown.attempted[i]) < ShutdownIndex(shutdown.attempted[j])

\* The handler's calls without those in `skipped`.
ShutdownStepsWithout(skipped) ==
    LET Kept(step) == step \notin skipped IN SelectSeq(ShutdownSteps, Kept)

\* C22 (as stated): in a run with a single signal the handler attempts
\* heater.hardStop, pump.hardStop, light.off, lightColorLogic.stop,
\* pinger.stop, messageBus.stop, GPIO cleanup, the system_shutdown event and
\* exit, in this order and each once, whichever of them raise.
C22_EveryStepAttemptedInOrder ==
    /\ AttemptedInOrder
    /\ SingleSignalRunOver => shutdown.attempted = ShutdownSteps

\* C22 (amended): in a run with a single signal the handler attempts its
\* calls in the documented order, each at most once; a call that raises ends
\* its own phase only, so lightColorLogic.stop is skipped exactly when
\* light.off raised, and every other call, GPIO cleanup in particular, is
\* attempted whichever calls raise.
C22_RaisingStepEndsItsPhaseOnly ==
    /\ AttemptedInOrder
    /\ SingleSignalRunOver =>
          shutdown.attempted =
              ShutdownStepsWithout(IF "light.off" \in shutdown.raised
                                   THEN {"lightColorLogic.stop"} ELSE {})

\* A single-signal run is over in which heater.hardStop and light.off both
\* raised and GPIO cleanup was attempted all the same.
C22_Witness ==
    /\ SingleSignalRunOver
    /\ {"heater.hardStop", "light.off"} \subseteq shutdown.raised
    /\ Count(shutdown.attempted, "gpioController.cleanup") = 1
    /\ Count(shutdown.attempted, "lightColorLogic.stop") = 0

\* C23: when the process has exited, GPIO cleanup was invoked exactly once,
\* and the exit status is 1 if a second signal was received and 0 otherwise
\* (the atexit hook that runs after the handler changes neither).
C23_CleanupOnceAndExitCodes ==
    shutdown.pc = "exited" =>
        /\ Count(shutdown.attempted, "gpioController.cleanup") = 1
        /\ shutdown.exitCode = Some(IF shutdown.signals = 2 THEN 1 ELSE 0)

----------------------------------------------------------------------------
(* A tick that raises.                                                     *)

\* The step is a run of the main loop's except clause.
MainLoopHandlerRan == last'.op = "main_loop_error" /\ (last' # last \/ log' # log)

----------------------------------------------------------------------------
(* The pump's timed run.                                                   *)

\* C25: setRunForXMinutesAndStop(m) returns with the pump ON, its relay
\* active, mode REACH_TIME_AND_STOP, runForXMinutes = m and the timer
\* started at the call, whether the pump was ON or OFF before; runOneLoop on
\* a pump in a timed run leaves the pump as it is while the elapsed time is
\* at most m minutes, and otherwise turns it OFF, with mode OFF,
\* runForXMinutes cleared and the timer stopped.
C25_TimedRun ==
    [][/\ Called("Pump_setRunForXMinutesAndStop") =>
             /\ pump'.state = "ON" /\ relay'.pump
             /\ pump'.mode = "REACH_TIME_AND_STOP"
             /\ pump'.runForXMinutes = last'.arg
             /\ pump'.timer = Some(now)
       /\ (Called("Pump_runOneLoop") /\ pump.state = "ON"
              /\ pump.mode = "REACH_TIME_AND_STOP") =>
             IF Timer_elapsedSeconds(pump.timer) <= 60 * Val(pump.runForXMinutes)
             THEN pump' = pump /\ relay'.pump = relay.pump
             ELSE /\ PumpIsOff(pump', relay')
                  /\ pump'.runForXMinutes = None /\ pump'.timer = None]_vars

\* runOneLoop has just ended a timed run: it turned the pump OFF and reset
\* its mode.
C25_Witness ==
    /\ last.op = "Pump_runOneLoop"
    /\ Logged(log, StateEvent("pump_state", "ON", "OFF"))
    /\ Logged(log, Opaque("pump_mode_off"))
    /\ PumpIsOff(pump, relay) /\ pump.runForXMinutes = None

----------------------------------------------------------------------------
(* Timer.                                                                  *)

\* C29: start() on a running timer changes neither _start_time nor
\* _wall_start_time; stop() on a timer that is not running returns elapsed 0
\* and leaves it stopped; stop() on a running timer returns the wall stamp
\* recorded by start() with the elapsed time, which is not negative, and
\* leaves the timer stopped; elapsedSeconds() of a stopped timer is 0.  A
\* timer is running exactly when its _start_time is set.
C29_TimerContract ==
    [][/\ timer'.isRunning = ~IsNone(timer'.start_time)
       /\ (Called("Timer_start") /\ timer.isRunning) =>
             /\ timer'.start_time = timer.start_time
             /\ timer'.wall_start_time = timer.wall_start_time
       /\ (Called("Timer_stop") /\ ~timer.isRunning) =>
             /\ last'.ret[2] = 0
             /\ ~timer'.isRunning /\ IsNone(timer'.start_time)
       /\ (Called("Timer_stop") /\ timer.isRunning) =>
             /\ last'.ret[1] = Val(timer.wall_start_time)
             /\ last'.ret[2] = (now - Val(timer.start_time)) * SecondsPerStep
             /\ last'.ret[2] >= 0
             /\ ~timer'.isRunning /\ IsNone(timer'.start_time)
       /\ (Called("Timer_elapsedSeconds") /\ ~timer.isRunning) =>
             last'.ret = 0]_vars

\* stop() has just returned the wall stamp of a start() made earlier than
\* the call, with an elapsed time above 0.
C29_Witness ==
    /\ last.op = "Timer_stop"
    /\ ~timer.isRunning /\ ~IsNone(timer.wall_start_time)
    /\ last.ret[1] = Val(timer.wall_start_time)
    /\ last.ret[1] # WallClock(now)
    /\ last.ret[2] > 0

----------------------------------------------------------------------------
(* Light.cycle().                                                          *)

----------------------------------------------------------------------------
(* The color driver.                                                       *)

\* C26: under every interleaving of light_set_color messages with the
\* worker, the commands in the queue plus the command the worker holds are
\* never more than one.
C26_AtMostOneSetColorCommand ==
    Len(lightColorLogic.command_queue)
        + (IF HoldsCommand(lightColorLogic) THEN 1 ELSE 0) <= 1

\* C27: a hardStop() returns with the queue empty, and once the wait the
\* worker is in when the interrupt is requested has ended the command in
\* flight toggles the light no more: a step of the worker that starts at
\* the end of a sleep with the interrupt requested leaves the light and its
\* relay as they are.
C27_HardStopEndsToggles ==
    [][/\ Called("LightColorLogic_hardStop_return") =>
             lightColorLogic'.command_queue = << >>
       /\ (last'.by = "worker" /\ lightColorLogic.pc \in SleepingAt
              /\ lightColorLogic.interrupt_requested) =>
             light'.state = light.state /\ relay'.light = relay.light]_vars

----------------------------------------------------------------------------
(* Stops of the heater from other threads.                                 *)

\* C30: a hardStop() of the heater called by another thread runs with the
\* heater's activation lock held by its caller, so it never runs while an
\* on() holds that lock: no such call takes place between the acquisition
\* and the release of _activation_lock by on().
C30_ExternalStopOutsideOnCriticalSection ==
    [][(last'.op = "Heater_hardStop" /\ last'.by = "watchdog"
           /\ (last' # last \/ heater' # heater \/ log' # log)) =>
          race.activationLock # "H"]_vars


----------------------------------------------------------------------------
(* The pump's mutators against each other.                                 *)

\* C31: the pump's mutators are atomic with respect to one another: with
\* the broker thread running timed-run and mode-off commands against the
\* main loop's runOneLoop(), the pump is never left ON with mode OFF once
\* both threads have returned (only a timed run turns this pump on), and
\* runOneLoop() never compares the elapsed time with an absent
\* runForXMinutes (race.raised records the TypeError of that comparison).
C31_PumpMutatorsAtomic ==
    /\ ~race.raised
    /\ (\A th \in PumpThreads : race.pc[th] = "idle") /\ pump.state = "ON" =>
          pump.mode = "REACH_TIME_AND_STOP"


----------------------------------------------------------------------------
(* The two locks.                                                          *)

\* The on() thread waits for a lock it cannot take.
RaceHeaterBlocked ==
    \/ race.hpc = "acqA" /\ race.activationLock # "free"
    \/ race.hpc = "acqS" /\ ~Pump_stateLockAcquirable(race, "H")

\* The pump thread waits for a lock it cannot take.
RacePumpBlocked ==
    \/ race.ppc = "acq" /\ ~Pump_stateLockAcquirable(race, "P")
    \/ race.ppc = "body" /\ RacePumpReenters /\ ~Pump_stateLockAcquirable(race, "P")

----------------------------------------------------------------------------
(* Heater.on() against a concurrent off()/hardStop().                      *)

\* No call of the heater is in progress.
HeaterQuiescent == \A th \in PumpThreads : race.pc[th] = "idle"

\* C33: whenever no heater operation is in progress, a heater whose state
\* is ON has its timer running, however on() and off()/hardStop() of
\* another thread interleave.
C33_OnImpliesTimerRunning ==
    HeaterQuiescent /\ heater.state = "ON" => ~IsNone(heater.timer)

\* C34: whenever no heater operation is in progress, the heater's relay is
\* energized exactly when the state is ON, however on() and
\* off()/hardStop() of another thread interleave.
C34_RelayIffStateOn ==
    HeaterQuiescent => (relay.heater <=> heater.state = "ON")


----------------------------------------------------------------------------
(* State events of the actuators.                                          *)

\* How many events called `name` the log l holds.
EventsNamed(l, name) == Cardinality({i \in 1..Len(l) : l[i].name = name})

\* An operation changes the state of the device exactly when it records one
\* state event, and that event goes from the old state to the new one.
OneEventPerTransition(name, old, new) ==
    IF old # new
    THEN EventsNamed(log', name) = 1 /\ Logged(log', StateEvent(name, old, new))
    ELSE EventsNamed(log', name) = 0

\* C35: for the pump and for the heater, a call that changes the actuator's
\* state records exactly one state event, from the old state to the new
\* one (the event carries the state read before the assignment); a call
\* that leaves the state as it was records none.
C35_OneStateEventPerTransition ==
    [][now' = now =>
          /\ OneEventPerTransition("pump_state", pump.state, pump'.state)
          /\ OneEventPerTransition("heater_state", heater.state, heater'.state)]_vars


----------------------------------------------------------------------------
(* The pump's timed mode.                                                  *)

\* C36: between the pump's operations runForXMinutes is set exactly when
\* the mode is REACH_TIME_AND_STOP, and a pump in that mode is ON: after
\* construction and after every sequence of on, off, hardStop,
\* setRunForXMinutesAndStop, setModeOff and runOneLoop.
C36_TimedModeInvariant ==
    /\ ~IsNone(pump.runForXMinutes) <=> pump.mode = "REACH_TIME_AND_STOP"
    /\ pump.mode = "REACH_TIME_AND_STOP" => pump.state = "ON"

\* runOneLoop() has left a timed run in force: mode and minutes set, pump ON.
C36_Witness ==
    /\ last.op = "Pump_runOneLoop"
    /\ pump.mode = "REACH_TIME_AND_STOP" /\ ~IsNone(pump.runForXMinutes)
    /\ pump.state = "ON"


----------------------------------------------------------------------------
(* The delayed heater start and the heat-to-T OFF command.                 *)

\* The heat-to-T OFF command was the last operation and a start scheduled
\* by an earlier ON command has not fired yet.
OffDuringCirculationDelay ==
    last.op = "heater_reach_and_stop" /\ last.ret = "off" /\ pending # << >>

\* C37 as stated: the delayed callback of an earlier heat-to-T ON command
\* that fires after a heat-to-T OFF command was processed does not energize
\* the heater.
C37_OffCancelsPendingStart ==
    [][Called("startHeaterAfterDelay") /\ OffDuringCirculationDelay =>
          ~relay'.heater]_vars

\* C37, amended: a heat-to-T OFF command does not cancel the pending start;
\* the callback that fires after it energizes the heater exactly when the
\* pump is ON at that moment, as every delayed callback does (the relay is
\* energized after the callback iff it was before or the pump is ON).
C37_PendingStartSurvivesOff ==
    [][Called("startHeaterAfterDelay") =>
          /\ relay'.heater <=> (relay.heater \/ pump.state = "ON")
          /\ OffDuringCirculationDelay => (relay'.heater <=> pump.state = "ON")]_vars

\* The OFF command has been processed during the circulation delay: the
\* heater is OFF, the pump runs on and the start is still pending.
C37_Witness ==
    /\ OffDuringCirculationDelay
    /\ pump.state = "ON" /\ heater.state = "OFF" /\ ~relay.heater


----------------------------------------------------------------------------
(* The heater during the ordered shutdown.                                 *)

\* C38: once the shutdown handler's first step, heater.hardStop(), has
\* completed, the heater's relay is not energized again: not by a delayed
\* heater start that was pending, not by a broker command delivered before
\* messageBus.stop().
C38_HeaterStaysOffDuringShutdown ==
    sdpc \in {"pump", "services", "gpio", "done"} => ~relay.heater


----------------------------------------------------------------------------
(* The order of the two stops.                                             *)

PumpTurnedOff == StateEvent("pump_state", "ON", "OFF")

\* Where the event e stands in the log l.
IndexOf(l, e) == CHOOSE i \in 1..Len(l) : l[i] = e

\* An operation that switched off both the heater and the pump recorded the
\* heater's state event, which off() writes just before the relay, first.
HeaterOffLoggedFirst(l) ==
    Logged(l, PumpTurnedOff) /\ Logged(l, HeaterTurnedOff) =>
       IndexOf(l, HeaterTurnedOff) < IndexOf(l, PumpTurnedOff)

\* C39: every path that stops both the pump and the heater de-energizes the
\* heater's relay before the pump's: an operation that stops both (the main
\* loop's except clause, the watchdog's escalation) switches the heater off
\* first, and the shutdown handler, whose heater.hardStop() has completed,
\* calls pump.hardStop() with the heater's relay inactive; so the sequence
\* passes through no state with the heater's relay active and the pump's
\* inactive.
C39_HeaterStoppedBeforePump ==
    [][/\ HeaterOffLoggedFirst(log')
       /\ (shutdown.pc = "pump.hardStop" /\ shutdown'.pc # shutdown.pc
              /\ "heater.hardStop" \notin shutdown'.raised) => ~relay.heater]_vars


----------------------------------------------------------------------------
(* The interrupt of the color driver.                                      *)

\* The worker passes the interrupt check of task() with the command it holds.
WorkerChecksCommand == lightColorLogic.pc = "check" /\ lightColorLogic'.pc # "check"

\* C40 as stated: the interrupt set by hardStop() stays set until the worker
\* dequeues its next command, and the command dropped is the first one
\* enqueued after the hardStop(): when hardStop() returns the interrupt is
\* set and the worker holds no command it has yet to check.
C40_FirstCommandAfterHardStopDropped ==
    [][Called("LightColorLogic_hardStop_return") =>
          /\ lightColorLogic'.interrupt_requested
          /\ lightColorLogic'.pc # "check"]_vars

\* C40, amended: the interrupt, once set, is reset by nothing but the
\* worker's check of a command it has dequeued; that check drops the command
\* without touching the light and resets the interrupt, whenever the command
\* was enqueued, and a check that finds no interrupt starts the command.
C40_InterruptConsumedAtNextCheck ==
    [][/\ lightColorLogic.interrupt_requested /\ ~lightColorLogic'.interrupt_requested =>
             WorkerChecksCommand
       /\ WorkerChecksCommand =>
             IF lightColorLogic.interrupt_requested
             THEN /\ ~lightColorLogic'.interrupt_requested
                  /\ lightColorLogic'.pc = "get" /\ IsNone(lightColorLogic'.command)
                  /\ ~lightColorLogic'.is_processing
                  /\ light' = light /\ relay' = relay
             ELSE /\ lightColorLogic'.pc = "dispatch"
                  /\ lightColorLogic'.command = lightColorLogic.command
                  /\ lightColorLogic'.is_processing]_vars

\* The worker has dropped a command and reset the interrupt while hardStop()
\* is still between its two statements: the command was enqueued before.
C40_Witness ==
    /\ lightColorLogic.stopping /\ ~lightColorLogic.interrupt_requested
    /\ last.by = "worker"
    /\ Logged(log, LogLine("command skipped due to interrupt"))

=============================================================================
